---- MODULE Spec2Model ----
(***************************************************************************)
(* A model of the RaeburnBrain router (RaeburnBrainAI/router.py, the model *)
(* registry and the provider fetchers) and of its memory stores            *)
(* (core/memory_store.py, RaeburnBrainAI/memory/store.py).                 *)
(*                                                                         *)
(* Conventions.  Python strings whose characters matter (prompts, contents)*)
(* are sequences of one-character strings.  Python's None is the string    *)
(* NONE where a field is Optional[str], and -1 where it is Optional[int].  *)
(* Floats are exact rationals [n, d] over arbitrary-precision naturals     *)
(* (sequences of base-1000 digits), so that no product overflows.          *)
(***************************************************************************)
EXTENDS Integers, Sequences, FiniteSets, TLC

NONE == "<None>"

(***************************************************************************)
(* Arbitrary-precision naturals: little-endian sequences of base-1000      *)
(* digits without leading zeros; <<>> is 0.                                *)
(***************************************************************************)
Base == 10 * 10 * 10

RECURSIVE BigOf(_)
BigOf(k) == IF k = 0 THEN <<>> ELSE <<k % Base>> \o BigOf(k \div Base)

RECURSIVE BigTrim(_)
BigTrim(a) ==
  IF a = <<>> THEN <<>>
  ELSE IF a[Len(a)] = 0 THEN BigTrim(SubSeq(a, 1, Len(a) - 1)) ELSE a

RECURSIVE BigAddC(_, _, _)
BigAddC(a, b, c) ==
  IF a = <<>> /\ b = <<>> THEN (IF c = 0 THEN <<>> ELSE <<c>>)
  ELSE LET x == IF a = <<>> THEN 0 ELSE a[1]
           y == IF b = <<>> THEN 0 ELSE b[1]
           s == x + y + c
           ra == IF a = <<>> THEN <<>> ELSE Tail(a)
           rb == IF b = <<>> THEN <<>> ELSE Tail(b)
       IN <<s % Base>> \o BigAddC(ra, rb, s \div Base)

BigAdd(a, b) == BigTrim(BigAddC(a, b, 0))

\* a * k for a machine-size k, 0 <= k < 2000000
RECURSIVE BigMulSmallC(_, _, _)
BigMulSmallC(a, k, c) ==
  IF a = <<>> THEN BigOf(c)
  ELSE LET s == a[1] * k + c
       IN <<s % Base>> \o BigMulSmallC(Tail(a), k, s \div Base)

BigMulSmall(a, k) == BigTrim(BigMulSmallC(a, k, 0))

RECURSIVE BigMul(_, _)
BigMul(a, b) ==
  IF a = <<>> \/ b = <<>> THEN <<>>
  ELSE LET rest == BigMul(a, Tail(b))
       IN BigAdd(BigMulSmall(a, b[1]),
                 IF rest = <<>> THEN <<>> ELSE <<0>> \o rest)

\* -1, 0, 1 as a < b, a = b, a > b
RECURSIVE BigCmpFrom(_, _, _)
BigCmpFrom(a, b, i) ==
  IF i = 0 THEN 0
  ELSE IF a[i] < b[i] THEN -1
  ELSE IF a[i] > b[i] THEN 1
  ELSE BigCmpFrom(a, b, i - 1)

BigCmp(a, b) ==
  IF Len(a) < Len(b) THEN -1
  ELSE IF Len(a) > Len(b) THEN 1
  ELSE BigCmpFrom(a, b, Len(a))

(***************************************************************************)
(* Non-negative rationals over the naturals above.                         *)
(***************************************************************************)
Rat(n, d) == [n |-> BigOf(n), d |-> BigOf(d)]
RatMul(x, y) == [n |-> BigMul(x.n, y.n), d |-> BigMul(x.d, y.d)]
RatAdd(x, y) ==
  [n |-> BigAdd(BigMul(x.n, y.d), BigMul(y.n, x.d)), d |-> BigMul(x.d, y.d)]
RatCmp(x, y) == BigCmp(BigMul(x.n, y.d), BigMul(y.n, x.d))
RatLess(x, y) == RatCmp(x, y) = -1
RatEq(x, y) == RatCmp(x, y) = 0
RatLeq(x, y) == RatCmp(x, y) # 1

(***************************************************************************)
(* Text.  A Python str is a sequence of one-character strings.             *)
(***************************************************************************)
SP == " "
S_local == <<SP, "[", "l", "o", "c", "a", "l", ":">>       \* " [local:"
S_close == <<"]">>
S_openai == <<SP, "-", SP, "o", "p", "e", "n", "a", "i">>  \* " - openai"
S_openrouter == <<SP, "-", SP, "o", "p", "e", "n", "r", "o", "u", "t", "e", "r">>
S_huggingface == <<SP, "-", SP, "h", "u", "g", "g", "i", "n", "g", "f", "a", "c", "e">>
S_ollama == <<SP, "-", SP, "o", "l", "l", "a", "m", "a">>

\* the characters of the model names the registries of this model use
NameChars(name) ==
  CASE name = "local-echo" -> <<"l", "o", "c", "a", "l", "-", "e", "c", "h", "o">>
    [] name = "A" -> <<"A">>
    [] name = "B" -> <<"B">>
    [] OTHER -> <<"?">>

(***************************************************************************)
(* difflib.SequenceMatcher(None, a, b).ratio() for len(b) < 200 (below the *)
(* autojunk threshold there is no junk and no popular element).            *)
(***************************************************************************)
RECURSIVE RunLen(_, _, _, _, _, _)
\* length of the common run of a[i..ahi] and b[j..bhi] (1-based, inclusive)
RunLen(a, b, i, j, ahi, bhi) ==
  IF i > ahi \/ j > bhi \/ a[i] # b[j] THEN 0
  ELSE 1 + RunLen(a, b, i + 1, j + 1, ahi, bhi)

\* find_longest_match: the longest block, the earliest in a, then in b
LongestMatch(a, b, alo, ahi, blo, bhi) ==
  LET C == { <<i, j>> \in (alo..ahi) \X (blo..bhi) : a[i] = b[j] }
      K(c) == RunLen(a, b, c[1], c[2], ahi, bhi)
  IN IF C = {} THEN [i |-> alo, j |-> blo, k |-> 0]
     ELSE LET best == CHOOSE c \in C :
                        \A e \in C :
                          \/ K(c) > K(e)
                          \/ K(c) = K(e) /\ c[1] < e[1]
                          \/ K(c) = K(e) /\ c[1] = e[1] /\ c[2] <= e[2]
          IN [i |-> best[1], j |-> best[2], k |-> K(best)]

RECURSIVE Matches(_, _, _, _, _, _)
\* the sum of the sizes of get_matching_blocks over a[alo..ahi], b[blo..bhi]
Matches(a, b, alo, ahi, blo, bhi) ==
  IF alo > ahi \/ blo > bhi THEN 0
  ELSE LET m == LongestMatch(a, b, alo, ahi, blo, bhi)
       IN IF m.k = 0 THEN 0
          ELSE m.k + Matches(a, b, alo, m.i - 1, blo, m.j - 1)
                   + Matches(a, b, m.i + m.k, ahi, m.j + m.k, bhi)

\* _similarity(a, b): 0.0 if either is empty, else ratio() = 2*M/T
Similarity(a, b) ==
  IF a = <<>> \/ b = <<>> THEN Rat(0, 1)
  ELSE Rat(2 * Matches(a, b, 1, Len(a), 1, Len(b)), Len(a) + Len(b))

Min(x, y) == IF x < y THEN x ELSE y
Max(x, y) == IF x > y THEN x ELSE y

\* Python truthiness of an Optional[str] error: None and "" are falsy
Truthy(e) == e # NONE /\ e # ""

(***************************************************************************)
(* hybrid_score with the default ScoreWeights (RAEBURN_SCORE_WEIGHTS       *)
(* unset): 0.15 length + 0.25 match + 0.45 similarity + 0.15 latency.      *)
(***************************************************************************)
W_length == Rat(15, 100)
W_match == Rat(25, 100)
W_similarity == Rat(45, 100)
W_latency == Rat(15, 100)

HybridScore(prompt, res) ==
  LET length_score == Rat(Min(Len(res.content), 4000), 4000)
      match_score == IF Truthy(res.error) THEN Rat(0, 1) ELSE Rat(1, 1)
      sim_score == Similarity(prompt, res.content)
      latency_score == Rat(1, 1 + Max(res.latency, 1))
  IN RatAdd(RatAdd(RatMul(length_score, W_length), RatMul(match_score, W_match)),
            RatAdd(RatMul(sim_score, W_similarity), RatMul(latency_score, W_latency)))

(***************************************************************************)
(* Model descriptors (ModelMeta) and the registry file entries they are    *)
(* parsed from.  An endpoint is modelled by its hostname.                  *)
(***************************************************************************)
OpenAILike == {"openai", "openai_compatible", "litelm", "openrouter"}
AllRoles == {"system", "user", "assistant"}

\* a registry-file entry with every optional key absent
RawModel(name, provider) ==
  [name |-> name, provider |-> provider, cost |-> 0, speed |-> 0,
   strengths |-> {}, weaknesses |-> {}, forbidden_tasks |-> {},
   prefer_for |-> {}, avoid_for |-> {},
   auto_disable_threshold_failures |-> -1, last_passed_health |-> NONE,
   allowed_hosts |-> {}, streaming |-> "unset", json_mode |-> "unset",
   roles_given |-> FALSE, roles_supported |-> {},
   endpoint |-> NONE, api_key |-> NONE]

\* ModelMeta.from_dict
FromDict(data) ==
  LET provider == IF data.provider = NONE THEN "local" ELSE data.provider
      streaming0 == data.streaming = "true"
      json0 == data.json_mode = "true"
      roles0 == IF data.roles_supported = {} THEN {"user"} ELSE data.roles_supported
      streaming1 == IF provider \in OpenAILike
                    THEN data.streaming # "false" ELSE streaming0
      json1 == IF provider \in OpenAILike
               THEN data.json_mode # "false" ELSE json0
      roles1 == IF provider \in OpenAILike
                THEN (IF data.roles_given THEN data.roles_supported ELSE AllRoles)
                ELSE roles0
      endpoint1 == IF provider = "openrouter" /\ data.endpoint = NONE
                   THEN "openrouter.ai" ELSE data.endpoint
  IN [name |-> data.name, provider |-> provider,
      cost_usd_per_1k |-> data.cost, speed_tps_estimate |-> data.speed,
      strengths |-> data.strengths, weaknesses |-> data.weaknesses,
      forbidden_tasks |-> data.forbidden_tasks,
      prefer_for |-> data.prefer_for, avoid_for |-> data.avoid_for,
      auto_disable_threshold_failures |-> data.auto_disable_threshold_failures,
      last_passed_health |-> data.last_passed_health,
      allowed_hosts |-> data.allowed_hosts,
      streaming |-> streaming1, json_mode |-> json1, roles_supported |-> roles1,
      endpoint |-> endpoint1, api_key |-> data.api_key,
      allow_unauthenticated |-> (provider = "litelm")]

\* ModelMeta(name="local-echo", provider="local"): the dataclass defaults
LocalEchoMeta ==
  [name |-> "local-echo", provider |-> "local",
   cost_usd_per_1k |-> 0, speed_tps_estimate |-> 0,
   strengths |-> {}, weaknesses |-> {}, forbidden_tasks |-> {},
   prefer_for |-> {}, avoid_for |-> {},
   auto_disable_threshold_failures |-> -1, last_passed_health |-> NONE,
   allowed_hosts |-> {}, streaming |-> FALSE, json_mode |-> FALSE,
   roles_supported |-> {"user"}, endpoint |-> NONE, api_key |-> NONE,
   allow_unauthenticated |-> FALSE]

\* ModelMeta.host_allowed
HostAllowed(meta, endpoint) ==
  IF meta.allowed_hosts = {} THEN TRUE
  ELSE IF endpoint = NONE THEN TRUE
  ELSE endpoint \in meta.allowed_hosts

\* the overlay of models_installed.json: name -> endpoint (NONE: no entry)
RECURSIVE ParseFrom(_, _, _)
ParseFrom(models, installed, i) ==
  IF i > Len(models) THEN <<>>
  ELSE LET meta == FromDict(models[i])
           ep == IF meta.name \in DOMAIN installed THEN installed[meta.name] ELSE NONE
           merged == IF ep # NONE /\ meta.endpoint = NONE
                     THEN [meta EXCEPT !.endpoint = ep] ELSE meta
       IN IF meta.name = "" THEN ParseFrom(models, installed, i + 1)
          ELSE <<merged>> \o ParseFrom(models, installed, i + 1)

\* a variant of _parse_models that installs nothing for an empty list
ParseModelsBare(models, installed) == ParseFrom(models, installed, 1)

\* ModelRegistry._parse_models
ParseModels(models, installed) ==
  LET parsed == ParseFrom(models, installed, 1)
  IN IF parsed = <<>> THEN <<LocalEchoMeta>> ELSE parsed

(***************************************************************************)
(* Adapters (fetchers).  kind is the class _build_fetcher picks; "base" is *)
(* a BaseFetcher whose generate is not overridden.                         *)
(***************************************************************************)
BuildKind(meta) ==
  CASE meta.provider = "openrouter" -> "openrouter"
    [] meta.provider \in {"openai", "openai_compatible", "litelm"} -> "openai"
    [] meta.provider = "huggingface" -> "huggingface"
    [] meta.provider = "ollama" -> "ollama"
    [] OTHER -> "local"

\* BaseFetcher.__init__
NewFetcher(name, meta, kind) ==
  [name |-> name, meta |-> meta, kind |-> kind, health_ok |-> TRUE,
   failure_count |-> 0, recent_latency_avg |-> [n |-> 0, d |-> 1]]

\* ModelRegistry.fetcher_for: the cache after the call (the adapter is c[meta.name])
FetcherFor(c, meta) ==
  IF meta.name \in DOMAIN c THEN c
  ELSE c @@ (meta.name :> NewFetcher(meta.name, meta, BuildKind(meta)))

\* the filters of ModelRegistry.choose that follow the fetcher_for call
PassesFilters(meta, fetcher, require_json, require_streaming, required_roles) ==
  /\ ~(meta.auto_disable_threshold_failures # -1
       /\ fetcher.failure_count >= meta.auto_disable_threshold_failures)
  /\ ~(require_json /\ ~meta.json_mode)
  /\ ~(require_streaming /\ ~meta.streaming)
  /\ (required_roles # {} => required_roles \subseteq meta.roles_supported)
  /\ HostAllowed(meta, meta.endpoint)

\* the loop of ModelRegistry.choose from descriptor i on; limit 0 is None
RECURSIVE ChooseFrom(_, _, _, _, _, _, _, _, _)
ChooseFrom(metas, i, c, selected, limit, task, require_json, require_streaming, required_roles) ==
  IF i > Len(metas) THEN [cache |-> c, selected |-> selected]
  ELSE LET meta == metas[i]
       IN IF task # "" /\ task \in meta.forbidden_tasks
          THEN ChooseFrom(metas, i + 1, c, selected, limit, task, require_json,
                          require_streaming, required_roles)
          ELSE LET c1 == FetcherFor(c, meta)
                   fetcher == c1[meta.name]
               IN IF ~PassesFilters(meta, fetcher, require_json,
                                    require_streaming, required_roles)
                  THEN ChooseFrom(metas, i + 1, c1, selected, limit, task,
                                  require_json, require_streaming, required_roles)
                  ELSE LET sel1 == Append(selected, fetcher.name)
                       IN IF limit # 0 /\ Len(sel1) >= limit
                          THEN [cache |-> c1, selected |-> sel1]
                          ELSE ChooseFrom(metas, i + 1, c1, sel1, limit, task,
                                          require_json, require_streaming,
                                          required_roles)

\* a variant of choose without the local-echo fallback
ChooseNoFallback(metas, c, limit, task, require_json, require_streaming, required_roles) ==
  ChooseFrom(metas, 1, c, <<>>, limit, task, require_json, require_streaming,
             required_roles)

\* ModelRegistry.choose: the adapters chosen (by name) and the cache afterwards
Choose(metas, c, limit, task, require_json, require_streaming, required_roles) ==
  LET r == ChooseFrom(metas, 1, c, <<>>, limit, task, require_json,
                      require_streaming, required_roles)
  IN IF r.selected = <<>>
     THEN [cache |-> FetcherFor(r.cache, LocalEchoMeta),
           selected |-> <<LocalEchoMeta.name>>]
     ELSE r

(***************************************************************************)
(* BaseFetcher._record and _response.                                      *)
(***************************************************************************)
RECURSIVE Gcd(_, _)
Gcd(a, b) == IF b = 0 THEN a ELSE Gcd(b, a % b)

\* a machine-size rational in lowest terms
Frac(n, d) == LET g == Gcd(n, d) IN [n |-> n \div g, d |-> d \div g]

\* alpha * latency + (1 - alpha) * avg with alpha = 0.2
Ewma(avg, latency_ms) ==
  IF avg.n = 0 THEN Frac(latency_ms, 1)
  ELSE Frac(latency_ms * avg.d + 4 * avg.n, 5 * avg.d)

\* a variant of _record in which health, once lost, stays lost
RecordSticky(f, latency_ms, error) ==
  [f EXCEPT !.recent_latency_avg = Ewma(f.recent_latency_avg, latency_ms),
            !.failure_count = IF Truthy(error) THEN @ + 1 ELSE @,
            !.health_ok = @ /\ ~Truthy(error)]

\* BaseFetcher._record
Record(f, latency_ms, error) ==
  [f EXCEPT !.recent_latency_avg = Ewma(f.recent_latency_avg, latency_ms),
            !.failure_count = IF Truthy(error) THEN @ + 1 ELSE @,
            !.health_ok = ~Truthy(error)]

\* the dict _response returns, built on the adapter state after _record
Response(f, content, latency_ms, error) ==
  LET g == Record(f, latency_ms, error)
  IN [model |-> f.name, content |-> content, latency |-> latency_ms,
      error |-> error, meta |-> f.meta, health_ok |-> g.health_ok,
      failure_count |-> g.failure_count,
      recent_latency_avg |-> g.recent_latency_avg]

(***************************************************************************)
(* Router._bias_multiplier and the ranking of Router.route.                *)
(***************************************************************************)
\* getattr(fetcher, ..., default) on `fetcher or object()`
NoFetcher == [failure_count |-> 0, health_ok |-> TRUE]

\* a variant without the floor: abs(1.0 - 0.1 * failure_count)
FailurePenaltyUnclamped(failure_count) ==
  Rat(IF failure_count > 10 THEN failure_count - 10 ELSE 10 - failure_count, 10)

\* the failure_count factor: max(0.2, 1.0 - 0.1 * failure_count) if it is not 0
FailurePenalty(failure_count) ==
  IF failure_count # 0 THEN Rat(Max(2, 10 - failure_count), 10) ELSE Rat(1, 1)

BiasMultiplier(meta, fetcher, task) ==
  LET one == Rat(1, 1)
      b1 == IF task # "" /\ task \in meta.prefer_for THEN Rat(12, 10) ELSE one
      b2 == IF task # "" /\ task \in meta.avoid_for THEN Rat(7, 10) ELSE one
      b3 == IF task # "" /\ task \in meta.strengths THEN Rat(115, 100) ELSE one
      b4 == IF task # "" /\ task \in meta.weaknesses THEN Rat(85, 100) ELSE one
      b5 == Rat(1, 1 + Max(meta.cost_usd_per_1k, 0))
      b6 == IF meta.speed_tps_estimate # 0
            THEN Rat(1000 + Min(meta.speed_tps_estimate, 100), 1000) ELSE one
      b7 == FailurePenalty(fetcher.failure_count)
      b8 == IF ~fetcher.health_ok THEN Rat(8, 10) ELSE one
      b9 == IF meta.last_passed_health = NONE THEN Rat(9, 10) ELSE one
  IN RatMul(RatMul(RatMul(RatMul(b1, b2), RatMul(b3, b4)), RatMul(b5, b6)),
            RatMul(RatMul(b7, b8), b9))

\* next((f for f in fetchers if f.name == meta.name), None) or object()
RECURSIVE FindFetcher(_, _, _, _)
FindFetcher(names, c, meta_name, i) ==
  IF i > Len(names) THEN NoFetcher
  ELSE IF c[names[i]].name = meta_name THEN c[names[i]]
  ELSE FindFetcher(names, c, meta_name, i + 1)

\* one RouterResponse
Routed(prompt, task, names, c, res) ==
  LET bias == BiasMultiplier(res.meta, FindFetcher(names, c, res.meta.name, 1), task)
  IN [model |-> res.model, content |-> res.content, latency |-> res.latency,
      error |-> res.error, raw |-> res,
      score |-> RatMul(HybridScore(prompt, res), bias)]

\* a variant of the sort that puts a new element before its equals
RECURSIVE InsertDescUnstable(_, _)
InsertDescUnstable(sorted, r) ==
  IF sorted = <<>> THEN <<r>>
  ELSE IF RatLeq(Head(sorted).score, r.score) THEN <<r>> \o sorted
  ELSE <<Head(sorted)>> \o InsertDescUnstable(Tail(sorted), r)

\* list.sort(key=score, reverse=True): stable, descending
RECURSIVE InsertDesc(_, _)
InsertDesc(sorted, r) ==
  IF sorted = <<>> THEN <<r>>
  ELSE IF RatLess(Head(sorted).score, r.score) THEN <<r>> \o sorted
  ELSE <<Head(sorted)>> \o InsertDesc(Tail(sorted), r)

RECURSIVE SortDesc(_, _)
SortDesc(sorted, rest) ==
  IF rest = <<>> THEN sorted
  ELSE SortDesc(InsertDesc(sorted, Head(rest)), Tail(rest))

\* a variant that loses the description of the exception
SynthesizedSilent(f, msg) ==
  [model |-> f.name, content |-> <<>>, latency |-> 0, error |-> NONE,
   meta |-> f.meta, health_ok |-> f.health_ok, failure_count |-> f.failure_count]

\* the response Router.route builds for an adapter whose generate raised
Synthesized(f, msg) ==
  [model |-> f.name, content |-> <<>>, latency |-> 0, error |-> msg,
   meta |-> f.meta, health_ok |-> f.health_ok, failure_count |-> f.failure_count]

(***************************************************************************)
(* The router state machine: one Router over one ModelRegistry, serving    *)
(* route calls one after another.                                          *)
(***************************************************************************)
VARIABLES
  registry,   \* ModelRegistry._registry: the models of the registry file
  metas,      \* ModelRegistry._metas
  cache,      \* ModelRegistry._fetcher_cache: name -> adapter
  env,        \* the credentials present in the process environment
  rpc,        \* "idle" | "gather": where Router.route stands
  req,        \* the RouterRequest being served
  fetchers,   \* the adapters choose returned, by name
  tasks,      \* one generate call per chosen adapter
  routed,     \* the list the last completed route call returned
  nroutes     \* route calls started

rvars == <<registry, metas, cache, env, rpc, req, fetchers, tasks, routed, nroutes>>

MaxRoutes == 2
\* stop_after_attempt(3)
MaxAttempts == 3

Prompt == <<"h", "i">>
BodyText == <<"o", "k">>
Latencies == {3}

Request(parallel, limit_models, task, require_json, require_streaming, required_roles) ==
  [prompt |-> Prompt, session_id |-> "default", parallel |-> parallel,
   limit_models |-> limit_models, task |-> task, require_json |-> require_json,
   require_streaming |-> require_streaming, required_roles |-> required_roles]

NoRequest == Request(TRUE, 0, "", FALSE, FALSE, {})

Requests ==
  { Request(TRUE, 0, "", FALSE, FALSE, {}),
    Request(FALSE, 0, "", FALSE, FALSE, {}),
    Request(TRUE, 0, "code", FALSE, FALSE, {}),
    Request(FALSE, 1, "code", FALSE, FALSE, {}),
    Request(TRUE, 0, "chat", TRUE, FALSE, {}),
    Request(FALSE, 0, "", FALSE, TRUE, {"system"}),
    Request(TRUE, 1, "", TRUE, FALSE, {"user"}) }

\* registry files (the "models" list of model_registry.json)
A_openai == [RawModel("A", "openai") EXCEPT
               !.auto_disable_threshold_failures = 1, !.cost = 1,
               !.strengths = {"code"}, !.forbidden_tasks = {"chat"}]
A_local == RawModel("A", "local")
A_router == [RawModel("A", "openrouter") EXCEPT
               !.avoid_for = {"code"}, !.speed = 50, !.last_passed_health = "t0"]
B_local == [RawModel("B", "local") EXCEPT !.prefer_for = {"code"}]
B_hf == [RawModel("B", "huggingface") EXCEPT
           !.auto_disable_threshold_failures = 2, !.weaknesses = {"code"},
           !.allowed_hosts = {"h1"}]
B_ollama == [RawModel("B", "ollama") EXCEPT !.json_mode = "true"]
E_ollama == [RawModel("local-echo", "ollama") EXCEPT
               !.auto_disable_threshold_failures = 1]
Nameless == RawModel("", "openai")

\* the credentials the adapters read from the environment
AllKeys == {"OPENAI_API_KEY", "OPENROUTER_API_KEY", "HF_API_TOKEN"}

\* A deployment: the registry file (the "models" list of model_registry.json),
\* the models_installed.json overlay (name -> endpoint host), the credentials
\* in the environment, and the names under which the application has put an
\* adapter of its own (a BaseFetcher that does not override generate) into
\* the registry before the first route.
Setup(file, overlay, e, doubles) ==
  [file |-> file, overlay |-> overlay, env |-> e, doubles |-> doubles]

Setups ==
  { Setup(<<>>, <<>>, {}, {}),
    Setup(<<Nameless>>, <<>>, AllKeys, {}),
    Setup(<<A_local, B_local>>, <<>>, {}, {}),
    Setup(<<A_local, B_local>>, <<>>, {}, {"B"}),
    Setup(<<A_openai, B_hf>>, <<>>, AllKeys, {}),
    Setup(<<A_openai, B_hf>>, ("B" :> "h2"), {}, {}),
    Setup(<<A_router, B_ollama>>, <<>>, AllKeys, {}),
    Setup(<<A_router, B_hf>>, ("B" :> "h1"), AllKeys, {"A"}),
    Setup(<<E_ollama, A_openai>>, <<>>, {}, {}),
    Setup(<<E_ollama>>, <<>>, {}, {}),
    Setup(<<A_router, B_hf>>, <<>>, {}, {}) }

DoubleMeta(name) == [LocalEchoMeta EXCEPT !.name = name]

NoResult == [model |-> NONE]
\* a generate call: attempts made, the outcome of the latest one, the result
\* a dispatch before its first attempt; `same` says that the attempts so far
\* all ended the same way
NewTask ==
  [st |-> "pending", attempts |-> 0, last |-> NONE, same |-> TRUE,
   res |-> NoResult]

RInit ==
  /\ \E su \in Setups :
       /\ registry = su.file
       /\ metas = ParseModels(su.file, su.overlay)
       /\ env = su.env
       /\ cache = [n \in su.doubles |-> NewFetcher(n, DoubleMeta(n), "base")]
  /\ rpc = "idle"
  /\ req = NoRequest
  /\ fetchers = <<>>
  /\ tasks = <<>>
  /\ routed = <<>>
  /\ nroutes = 0

\* Router.route up to the dispatch: choose, then one generate per adapter
RouteBegin(r) ==
  /\ rpc \in {"idle", "cancelled"}
  /\ nroutes < MaxRoutes
  /\ LET ch == Choose(metas, cache, r.limit_models, r.task, r.require_json,
                      r.require_streaming, r.required_roles)
     IN /\ cache' = ch.cache
        /\ fetchers' = ch.selected
        /\ tasks' = [i \in 1..Len(ch.selected) |-> NewTask]
  /\ req' = r
  /\ rpc' = "gather"
  /\ routed' = <<>>
  /\ nroutes' = nroutes + 1
  /\ UNCHANGED <<registry, metas, env>>

\* task i may take a step: under gather any unfinished task, in the
\* sequential loop only the first unfinished one
MayStep(i) ==
  /\ rpc = "gather"
  /\ i \in 1..Len(tasks)
  /\ tasks[i].st = "pending"
  /\ (~req.parallel => \A j \in 1..(i - 1) : tasks[j].st # "pending")

\* generate returned: _response has recorded the outcome on the adapter
Finish(i, attempts, out, content, latency_ms, error) ==
  LET f == cache[fetchers[i]]
  IN /\ cache' = [cache EXCEPT ![fetchers[i]] = Record(f, latency_ms, error)]
     /\ tasks' = [tasks EXCEPT ![i] =
                    [st |-> "done", attempts |-> attempts, last |-> out,
                     same |-> tasks[i].same
                              /\ (tasks[i].last = NONE \/ out = tasks[i].last),
                     res |-> Response(f, content, latency_ms, error)]]
     /\ UNCHANGED <<registry, metas, env, rpc, req, fetchers, routed, nroutes>>

Retrying == {"openai", "openrouter", "huggingface"}

Suffix(kind) ==
  CASE kind = "openai" -> S_openai
    [] kind = "openrouter" -> S_openrouter
    [] kind = "huggingface" -> S_huggingface
    [] OTHER -> S_ollama

\* the credential check at the head of generate
HasCredentials(f) ==
  CASE f.kind = "openai" ->
         f.meta.api_key # NONE \/ "OPENAI_API_KEY" \in env
         \/ f.meta.allow_unauthenticated
    [] f.kind = "openrouter" -> "OPENROUTER_API_KEY" \in env
    [] f.kind = "huggingface" -> "HF_API_TOKEN" \in env
    [] OTHER -> TRUE

\* the host of the URL generate posts to: OpenAIFetcher._endpoint (with
\* OPENAI_API_BASE unset), OpenRouterFetcher._endpoint, the fixed URL of
\* HuggingFaceFetcher, OllamaFetcher with OLLAMA_URL unset; a local adapter
\* sends nothing
Endpoint(f) ==
  CASE f.kind = "openai" ->
         IF f.meta.endpoint # NONE THEN f.meta.endpoint ELSE "api.openai.com"
    [] f.kind = "openrouter" ->
         IF f.meta.endpoint # NONE THEN f.meta.endpoint ELSE "openrouter.ai"
    [] f.kind = "huggingface" -> "api-inference.huggingface.co"
    [] f.kind = "ollama" -> "localhost"
    [] OTHER -> NONE

\* a variant with one error text for every provider
MissingErrorGeneric(kind) == "missing_credentials"

MissingError(kind) ==
  IF kind = "huggingface" THEN "missing_api_token" ELSE "missing_api_key"

\* a variant that allows one attempt more
StopAfterAttemptLate(n) == n >= MaxAttempts + 1

\* stop_after_attempt(3): no attempt follows the attempt numbered n
StopAfterAttempt(n) == n >= MaxAttempts

\* what one HTTP attempt can do
Failures == {"http4xx", "http5xx", "timeout"}
Replies == {"ok", "ok_empty", "malformed"}

\* str(exc) of the exception an attempt or the parsing of its body raises; a
\* timeout raised without a message has the empty description
ErrText(out) ==
  CASE out = "http4xx" -> "Client error '404 Not Found'"
    [] out = "http5xx" -> "Server error '503 Service Unavailable'"
    [] out = "timeout" -> ""
    [] out = "malformed" -> "Expecting value: line 1 column 1 (char 0)"
    [] OTHER -> NONE

\* the content parsed from a 2xx reply
Parsed(out) == IF out = "ok" THEN BodyText ELSE <<>>

\* a variant that puts the fallback text in place of every empty content
FinalContentFallback(kind, content, error) ==
  IF content = <<>> THEN Prompt \o Suffix(kind) ELSE content

\* the content generate hands to _response
FinalContent(kind, content, error) ==
  CASE kind = "openai" ->
         IF content = <<>> /\ ~Truthy(error) THEN Prompt \o S_openai ELSE content
    [] kind = "ollama" ->
         IF content = <<>> THEN Prompt \o S_ollama ELSE content
    [] OTHER -> content

\* generate raised: no _response call, the adapter keeps its state
Raise(i, msg) ==
  /\ tasks' = [tasks EXCEPT ![i] =
                 [st |-> "raised", attempts |-> 0, last |-> NONE,
                  same |-> tasks[i].same, res |-> [error |-> msg]]]
  /\ UNCHANGED <<registry, metas, cache, env, rpc, req, fetchers, routed, nroutes>>

\* a variant whose try block ends before the body of the reply is parsed
CaughtTransportOnly(out) == out \in Failures

\* the outcomes the `try: ... except Exception` of generate covers: the
\* request, raise_for_status and the parsing of the body are all inside it
Caught(out) == out \in Failures \cup Replies

\* LocalFetcher.generate
GenerateLocal(i) ==
  /\ MayStep(i)
  /\ cache[fetchers[i]].kind = "local"
  /\ Finish(i, 0, NONE, Prompt \o S_local \o NameChars(fetchers[i]) \o S_close, 0, NONE)

\* generate of an adapter that lacks its credential
GenerateMissing(i) ==
  /\ MayStep(i)
  /\ cache[fetchers[i]].kind \in Retrying
  /\ ~HasCredentials(cache[fetchers[i]])
  /\ Finish(i, 0, NONE, Prompt \o Suffix(cache[fetchers[i]].kind), 0,
            MissingError(cache[fetchers[i]].kind))

\* an attempt inside AsyncRetrying fails and another one will follow
HttpRetry(i, out) ==
  /\ MayStep(i)
  /\ cache[fetchers[i]].kind \in Retrying
  /\ HasCredentials(cache[fetchers[i]])
  /\ out \in Failures
  /\ ~StopAfterAttempt(tasks[i].attempts + 1)
  /\ tasks' = [tasks EXCEPT ![i].attempts = @ + 1, ![i].last = out,
                 ![i].same = @ /\ (tasks[i].last = NONE \/ out = tasks[i].last)]
  /\ UNCHANGED <<registry, metas, cache, env, rpc, req, fetchers, routed, nroutes>>

\* the attempt that ends generate: a 2xx reply, or the last failure allowed
HttpFinish(i, out, latency_ms) ==
  /\ MayStep(i)
  /\ cache[fetchers[i]].kind \in Retrying
  /\ HasCredentials(cache[fetchers[i]])
  /\ \/ out \in Replies
     \/ out \in Failures /\ StopAfterAttempt(tasks[i].attempts + 1)
  /\ LET kind == cache[fetchers[i]].kind
         error == ErrText(out)
     IN IF Caught(out)
        THEN Finish(i, tasks[i].attempts + 1, out,
                    FinalContent(kind, Parsed(out), error), latency_ms, error)
        ELSE Raise(i, error)

\* OllamaFetcher.generate: one request, no retry
GenerateOllama(i, out, latency_ms) ==
  /\ MayStep(i)
  /\ cache[fetchers[i]].kind = "ollama"
  /\ out \in Failures \cup Replies
  /\ IF Caught(out)
     THEN Finish(i, 1, out, FinalContent("ollama", Parsed(out), ErrText(out)),
                 latency_ms, ErrText(out))
     ELSE Raise(i, ErrText(out))

\* BaseFetcher.generate raises; the message is str(exc)
ExcTexts == {"", "fail"}

GenerateRaise(i, msg) ==
  /\ MayStep(i)
  /\ cache[fetchers[i]].kind = "base"
  /\ Raise(i, msg)

\* the responses list of Router.route once every generate has ended
Responses ==
  [i \in 1..Len(tasks) |->
     IF tasks[i].st = "raised"
     THEN Synthesized(cache[fetchers[i]], tasks[i].res.error)
     ELSE tasks[i].res]

Ranked(responses) ==
  SortDesc(<<>>, [i \in 1..Len(responses) |->
                    Routed(req.prompt, req.task, fetchers, cache, responses[i])])

\* Router.route from the end of the dispatch: score, bias, sort, return
RouteEnd ==
  /\ rpc = "gather"
  /\ \A i \in 1..Len(tasks) : tasks[i].st # "pending"
  /\ routed' = Ranked(Responses)
  /\ rpc' = "idle"
  /\ UNCHANGED <<registry, metas, cache, env, req, fetchers, tasks, nroutes>>

\* the dispatches in flight: under gather every unfinished one, in the
\* sequential loop the one being awaited
InFlight == {i \in 1..Len(tasks) : MayStep(i)}

\* the deadline of the caller expires while route awaits its dispatches.
\* RouterRequest has no deadline and route has no timeout of its own: the
\* caller's asyncio.wait_for(router.route(...), d) cancels the route task,
\* the dispatches in flight are cancelled with it, and CancelledError, which
\* is no Exception, leaves route; no adapter records anything
RouteCancel ==
  /\ rpc = "gather"
  /\ InFlight # {}
  /\ tasks' = [i \in 1..Len(tasks) |->
                 IF i \in InFlight THEN [tasks[i] EXCEPT !.st = "cancelled"]
                 ELSE tasks[i]]
  /\ rpc' = "cancelled"
  /\ UNCHANGED <<registry, metas, cache, env, req, fetchers, routed, nroutes>>

(***************************************************************************)
(* The memory stores: core/memory_store.py ("core") and                    *)
(* RaeburnBrainAI/memory/store.py ("brain"), one MemoryStore object over   *)
(* one SQLite shard, used by several threads.  Times are clock readings;   *)
(* -1 stands for None.                                                     *)
(***************************************************************************)
VARIABLES
  impl,      \* which of the two stores this is
  clock,     \* what time.time() returns now
  rows,      \* the rows of the entries table, in rowid order
  lock,      \* the thread holding MemoryStore._lock (0: free)
  th,        \* per thread: the call it is in and what its last get returned
  returned,  \* the add / write calls that have returned
  nextid,    \* the number of the next entry
  updated    \* the number of update calls that have written

mvars == <<impl, clock, rows, lock, th, returned, nextid, updated>>

VARIABLES
  blobs,      \* the *.bin files in BLOBS_DIR, by the entry they were written for
  other_rows  \* the rows of the database file of another shard

bvars == <<blobs, other_rows>>

VARIABLES
  query_strict  \* MEMORY_QUERY_STRICT, read from the environment at import

tvars == <<query_strict>>

\* MEMORY_QUERY_STRICT defaults to "false"
TIdle == query_strict = FALSE

MaxClock == 3
MaxAdds == 2
NThreads == 2
MaxUpdates == 2

Threads == 1..NThreads
\* the threads that read; every thread writes
Readers == {1}
Agents == {"u1", "u2"}
NoTTL == -1
NoExpiry == -1
TTLs == {NoTTL, 0, 1}
\* the limit argument of get; 0 is an absent limit
Limits == {0, 1}
\* texts and queries are single words; a query matches the text equal to it
Texts == {"t0", "t1"}
\* importance in tenths: 0.5 is the default of add
Importance0 == 5

\* MEMORY_TTL_DEFAULT = float(os.getenv("MEMORY_TTL_DEFAULT", "0")) or None
MEMORY_TTL_DEFAULT == NoTTL
\* MEMORY_MAX_RESULTS, and the default of limit in the brain store
MEMORY_MAX_RESULTS == 5

\* `x if ttl else y`: None and 0 are both false
TtlSet(ttl) == ttl # NoTTL /\ ttl # 0

\* expires_at as add (core) and write (brain) compute it
ExpiresAt(im, ttl, now) ==
  IF TtlSet(ttl) THEN now + ttl
  ELSE IF im = "core" /\ TtlSet(MEMORY_TTL_DEFAULT) THEN MEMORY_TTL_DEFAULT + now
  ELSE NoExpiry

\* _db_path of the brain store: the database file of an agent is named by
\* `agent_id or "global"`; "" stands for an absent or empty agent id
ShardOf(agent) == IF agent = "" THEN "global" ELSE agent

\* DELETE ... WHERE expires_at IS NOT NULL AND expires_at < now, on the
\* database file of the connection: the shard (core), the agent's file (brain)
PurgeExpired(rs, now, im, agent) ==
  SelectSeq(rs, LAMBDA r :
    ~(/\ r.expires_at # NoExpiry
      /\ r.expires_at < now
      /\ (im = "core" \/ ShardOf(r.agent) = ShardOf(agent))))

\* ORDER BY created_at DESC leaves the order of equal keys open: tie is
\* "rowid" (equal keys in rowid order) or "reverse" (in reverse rowid order)
RECURSIVE InsertRow(_, _, _)
InsertRow(sorted, r, tie) ==
  IF sorted = <<>> THEN <<r>>
  ELSE IF \/ Head(sorted).created_at < r.created_at
          \/ tie = "reverse" /\ Head(sorted).created_at = r.created_at
       THEN <<r>> \o sorted
       ELSE <<Head(sorted)>> \o InsertRow(Tail(sorted), r, tie)

RECURSIVE OrderRows(_, _, _)
OrderRows(sorted, rest, tie) ==
  IF rest = <<>> THEN sorted
  ELSE OrderRows(InsertRow(sorted, Head(rest), tie), Tail(rest), tie)

\* a SELECT of get that has lost its `deleted = 0` clause
SelectRowsWithDeleted(rs, agent, limit, tie) ==
  LET cands == SelectSeq(rs, LAMBDA r : r.agent = agent)
      ordered == OrderRows(<<>>, cands, tie)
  IN SubSeq(ordered, 1, Min(limit, Len(ordered)))

\* SELECT * ... WHERE agent_id = ? AND deleted = 0 ORDER BY created_at DESC LIMIT ?
SelectRows(rs, agent, limit, tie) ==
  LET cands == SelectSeq(rs, LAMBDA r : r.agent = agent /\ ~r.deleted)
      ordered == OrderRows(<<>>, cands, tie)
  IN SubSeq(ordered, 1, Min(limit, Len(ordered)))

\* the SELECT of get(include_deleted=True): no `deleted = 0` clause
SelectAllRows(rs, agent, limit, tie) ==
  LET cands == SelectSeq(rs, LAMBDA r : r.agent = agent)
      ordered == OrderRows(<<>>, cands, tie)
  IN SubSeq(ordered, 1, Min(limit, Len(ordered)))

\* the rows of the database file _connect(agent_id) opens
ShardRows(rs, agent) == SelectSeq(rs, LAMBDA r : ShardOf(r.agent) = ShardOf(agent))

\* ... ORDER BY created_at DESC LIMIT ? over the selected rows
BrainLimit(cands, limit, tie) ==
  LET ordered == OrderRows(<<>>, cands, tie)
  IN SubSeq(ordered, 1, Min(limit, Len(ordered)))

\* get of the brain store: SELECT * FROM entries ORDER BY created_at DESC LIMIT ?
BrainGet(rs, agent, limit, tie) == BrainLimit(ShardRows(rs, agent), limit, tie)

\* fts_entries MATCH ?: the index holds the text of the INSERT (the only
\* trigger is AFTER INSERT); a one-word query matches the text equal to it
Match(r, query) == r.indexed = query

\* json.dumps of a tag list
DumpTags(l) == IF l = <<>> THEN "[]" ELSE "[\"" \o l[1] \o "\"]"

\* if tags and MEMORY_QUERY_STRICT: clauses.append("tags = ?") with
\* json.dumps(list(tags)); tags add no clause otherwise
TagClause(r, tags, strict) == (tags # <<>> /\ strict) => r.tags = DumpTags(tags)

\* the SELECT of search: ... WHERE fts_entries MATCH ? AND agent_id = ? AND
\* deleted = 0 ORDER BY bm25_score ASC, created_at DESC LIMIT ?; the matching
\* one-word texts have one bm25 score
SearchRows(rs, agent, query, tags, strict, limit, tie) ==
  LET cands == SelectSeq(rs, LAMBDA r :
                 /\ Match(r, query) /\ r.agent = agent /\ ~r.deleted
                 /\ TagClause(r, tags, strict))
      ordered == OrderRows(<<>>, cands, tie)
  IN SubSeq(ordered, 1, Min(limit, Len(ordered)))

\* the score of get_relevant: 1.0 * 0.5 + recency * 0.3 + importance * 0.2
\* with recency = 1 / (1 + (now - created_at) / 3600)
Relevance(r, now) ==
  RatAdd(RatAdd(Rat(1, 2),
                RatMul(Rat(3600, 3600 + (now - r.created_at)), Rat(3, 10))),
         RatMul(Rat(r.importance, 10), Rat(2, 10)))

\* scored.sort(key=..., reverse=True): descending and stable
RECURSIVE InsertScored(_, _, _)
InsertScored(sorted, r, now) ==
  IF sorted = <<>> THEN <<r>>
  ELSE IF RatLess(Relevance(Head(sorted), now), Relevance(r, now))
       THEN <<r>> \o sorted
       ELSE <<Head(sorted)>> \o InsertScored(Tail(sorted), r, now)

RECURSIVE SortScored(_, _, _)
SortScored(sorted, rest, now) ==
  IF rest = <<>> THEN sorted
  ELSE SortScored(InsertScored(sorted, Head(rest), now), Tail(rest), now)

\* the loop and the cut of get_relevant over its candidates
Rank(candidates, now, limit) ==
  LET kept == SelectSeq(candidates, LAMBDA r : ~r.deleted)
      scored == SortScored(<<>>, kept, now)
  IN SubSeq(scored, 1, Min(limit, Len(scored)))

\* an absent importance argument of update
NoImportance == -1
\* an absent tags or metadata argument of update
NoList == <<NONE>>
\* update called with no field
NoFields ==
  [text |-> NONE, tags |-> NoList, ttl |-> NoTTL, metadata |-> NoList,
   importance |-> NoImportance]

\* the tag lists and the metadata maps (lists of key-value pairs) in use
TagLists == {<<>>, <<"g1">>, <<"fact">>}
MetaMaps == {<<>>, << <<"k", "v">> >>}
\* json.dumps of a metadata map
DumpMeta(m) ==
  IF m = <<>> THEN "{}" ELSE "{\"" \o m[1][1] \o "\": \"" \o m[1][2] \o "\"}"
\* json.loads(x) if x else the empty value, on the texts the store wrote
LoadTags(x) ==
  IF x = "" THEN <<>> ELSE CHOOSE l \in TagLists : DumpTags(l) = x
LoadMeta(x) ==
  IF x = "" THEN <<>> ELSE CHOOSE m \in MetaMaps : DumpMeta(m) = x
\* _row_to_entry on the columns update writes back
RowToEntry(r) ==
  [r EXCEPT !.tags = LoadTags(r.tags), !.metadata = LoadMeta(r.metadata)]
\* an absent blob_ref
NoBlobRef == 0
\* no row read
NoEntry ==
  [id |-> 0, agent |-> "", created_at |-> 0, expires_at |-> NoExpiry,
   deleted |-> FALSE, text |-> "", indexed |-> "", tags |-> <<>>,
   importance |-> 0, metadata |-> <<>>, blob_ref |-> NoBlobRef]

\* a thread outside every call that has not read yet
IdleThread ==
  [pc |-> "idle", agent |-> "u1", ttl |-> NoTTL, limit |-> 0, id |-> 0,
   created_at |-> 0, expires_at |-> NoExpiry, before |-> {}, result |-> <<>>,
   text |-> "", op |-> "", include_deleted |-> FALSE, start |-> 0,
   query |-> "", relevant |-> 0, fields |-> NoFields, entry |-> NoEntry,
   blob_ref |-> NoBlobRef, refs |-> {}, tags |-> <<>>]

MInit ==
  /\ impl \in {"core", "brain"}
  /\ clock = 1
  /\ rows = <<>>
  /\ lock = 0
  /\ th = [t \in Threads |-> IdleThread]
  /\ returned = {}
  /\ nextid = 1
  /\ updated = 0

\* add (core) / write (brain) up to the lock: the entry gets its id and its
\* expires_at; core also reads created_at here, before it takes the lock
\* with `blob` bytes the core store writes the side file here (write_blob)
AddFull(t, agent, text, ttl, tags, blob) ==
  /\ th[t].pc = "idle"
  /\ nextid <= MaxAdds
  /\ blob => impl = "core"
  /\ th' = [th EXCEPT ![t] =
              [IdleThread EXCEPT !.pc = "add_lock", !.agent = agent,
                 !.text = text, !.ttl = ttl, !.id = nextid,
                 !.created_at = IF impl = "core" THEN clock ELSE 0,
                 !.expires_at = ExpiresAt(impl, ttl, clock),
                 !.tags = tags,
                 !.blob_ref = IF blob THEN nextid ELSE NoBlobRef]]
  /\ blobs' = IF blob THEN blobs \cup {nextid} ELSE blobs
  /\ nextid' = nextid + 1
  /\ UNCHANGED <<impl, clock, rows, lock, returned, updated>>

\* add / write without tags and without a blob
AddBegin(t, agent, text, ttl) == AddFull(t, agent, text, ttl, <<>>, FALSE)

\* with self._lock:
AddLock(t) ==
  /\ th[t].pc = "add_lock"
  /\ lock = 0
  /\ lock' = t
  /\ th' = [th EXCEPT ![t].pc = "add_purge"]
  /\ UNCHANGED <<impl, clock, rows, returned, nextid, updated>>

\* _purge_expired(conn) inside add / write
AddPurge(t) ==
  /\ th[t].pc = "add_purge"
  /\ rows' = PurgeExpired(rows, clock, impl, th[t].agent)
  /\ th' = [th EXCEPT ![t].pc = "add_insert"]
  /\ UNCHANGED <<impl, clock, lock, returned, nextid, updated>>

\* INSERT, commit, release of the lock, return; brain reads created_at here
AddInsert(t) ==
  /\ th[t].pc = "add_insert"
  /\ rows' = Append(rows,
       [id |-> th[t].id, agent |-> th[t].agent,
        created_at |-> IF impl = "core" THEN th[t].created_at ELSE clock,
        expires_at |-> th[t].expires_at, deleted |-> FALSE,
        text |-> th[t].text, indexed |-> th[t].text,
        tags |-> DumpTags(th[t].tags), importance |-> Importance0,
        metadata |-> DumpMeta(<<>>), blob_ref |-> th[t].blob_ref])
  /\ lock' = 0
  /\ returned' = returned \cup
       {[id |-> th[t].id, agent |-> th[t].agent, ttl |-> th[t].ttl]}
  /\ th' = [th EXCEPT ![t] = IdleThread]
  /\ UNCHANGED <<impl, clock, nextid, updated>>

\* get starts: `limit or MEMORY_MAX_RESULTS`; core takes no lock
GetBegin(t, agent, limit, include_deleted) ==
  /\ th[t].pc = "idle"
  /\ impl = "brain" => ~include_deleted
  /\ th' = [th EXCEPT ![t] =
              [IdleThread EXCEPT
                 !.pc = IF impl = "core" THEN "get_purge" ELSE "get_lock",
                 !.op = "get", !.include_deleted = include_deleted,
                 !.start = clock, !.agent = agent,
                 !.limit = IF limit = 0 THEN MEMORY_MAX_RESULTS ELSE limit,
                 !.before = {w.id : w \in returned}]]
  /\ UNCHANGED <<impl, clock, rows, lock, returned, nextid, updated>>

\* with self._lock: in get of the brain store
GetLock(t) ==
  /\ th[t].pc = "get_lock"
  /\ lock = 0
  /\ lock' = t
  /\ th' = [th EXCEPT ![t].pc = "get_purge"]
  /\ UNCHANGED <<impl, clock, rows, returned, nextid, updated>>

\* _purge_expired(conn) inside get
GetPurge(t) ==
  /\ th[t].pc = "get_purge"
  /\ rows' = PurgeExpired(rows, clock, impl, th[t].agent)
  /\ th' = [th EXCEPT ![t].pc = "get_select"]
  /\ UNCHANGED <<impl, clock, lock, returned, nextid, updated>>

\* the SELECT of get or of search; the brain store then leaves its lock;
\* inside get_relevant the list goes on to the ranking
GetSelect(t, tie) ==
  /\ th[t].pc = "get_select"
  /\ th' = [th EXCEPT
              ![t].pc = IF th[t].relevant # 0 THEN "rank" ELSE "get_done",
              ![t].result =
                IF th[t].op = "search"
                  THEN SearchRows(rows, th[t].agent, th[t].query, th[t].tags,
                                  query_strict, th[t].limit, tie)
                ELSE IF impl = "brain"
                  THEN BrainGet(rows, th[t].agent, th[t].limit, tie)
                ELSE IF th[t].include_deleted
                  THEN SelectAllRows(rows, th[t].agent, th[t].limit, tie)
                ELSE SelectRows(rows, th[t].agent, th[t].limit, tie)]
  /\ lock' = IF impl = "brain" THEN 0 ELSE lock
  /\ UNCHANGED <<impl, clock, rows, returned, nextid, updated>>

\* get hands its list to the caller
GetReturn(t) ==
  /\ th[t].pc = "get_done"
  /\ th' = [th EXCEPT ![t] = IdleThread]
  /\ UNCHANGED <<impl, clock, rows, lock, returned, nextid, updated>>

\* soft_delete(entry_id): UPDATE ... SET deleted = 1 WHERE id = ?
SoftDelete(t, id) ==
  /\ impl = "core"
  /\ th[t].pc = "idle"
  /\ \E k \in 1..Len(rows) : rows[k].id = id /\ ~rows[k].deleted
  /\ rows' = [k \in 1..Len(rows) |->
                IF rows[k].id = id THEN [rows[k] EXCEPT !.deleted = TRUE]
                ELSE rows[k]]
  /\ UNCHANGED <<impl, clock, lock, th, returned, nextid, updated>>

\* delete(entry_id): DELETE ... WHERE id = ?
Delete(t, id) ==
  /\ impl = "core"
  /\ th[t].pc = "idle"
  /\ \E k \in 1..Len(rows) : rows[k].id = id
  /\ rows' = SelectSeq(rows, LAMBDA r : r.id # id)
  /\ UNCHANGED <<impl, clock, lock, th, returned, nextid, updated>>

\* search starts: `limit or MEMORY_MAX_RESULTS`, no lock; tags is the
\* optional tag filter, <<>> for None
SearchTags(t, agent, query, limit, tags) ==
  /\ impl = "core"
  /\ th[t].pc = "idle"
  /\ th' = [th EXCEPT ![t] =
              [IdleThread EXCEPT
                 !.pc = "get_purge", !.op = "search", !.query = query,
                 !.tags = tags,
                 !.start = clock, !.agent = agent,
                 !.limit = IF limit = 0 THEN MEMORY_MAX_RESULTS ELSE limit]]
  /\ UNCHANGED <<impl, clock, rows, lock, returned, nextid, updated>>

\* search without a tag filter
SearchBegin(t, agent, query, limit) == SearchTags(t, agent, query, limit, <<>>)

\* get_relevant starts: search(limit * 3) if there is a query, else
\* get(limit * 3)
RelevantBegin(t, agent, query, limit) ==
  /\ impl = "core"
  /\ th[t].pc = "idle"
  /\ LET lim == IF limit = 0 THEN MEMORY_MAX_RESULTS ELSE limit
     IN th' = [th EXCEPT ![t] =
              [IdleThread EXCEPT
                 !.pc = "get_purge",
                 !.op = IF query # "" THEN "search" ELSE "get",
                 !.query = query, !.relevant = lim,
                 !.start = clock, !.agent = agent, !.limit = lim * 3]]
  /\ UNCHANGED <<impl, clock, rows, lock, returned, nextid, updated>>

\* get_relevant reads the time, scores its candidates, sorts and cuts
RelevantRank(t) ==
  /\ th[t].pc = "rank"
  /\ th' = [th EXCEPT ![t].pc = "get_done",
              ![t].result = Rank(th[t].result, clock, th[t].relevant)]
  /\ UNCHANGED <<impl, clock, rows, lock, returned, nextid, updated>>

\* the updates that have started
Updates == updated + Cardinality({t \in Threads : th[t].pc = "upd_write"})

\* update up to its SELECT: purge, read the row into a copy; no lock and no
\* transaction; an unknown id returns at once
UpdateBegin(t, id, fields) ==
  /\ impl = "core"
  /\ th[t].pc = "idle"
  /\ Updates < MaxUpdates
  /\ LET purged == PurgeExpired(rows, clock, impl, "")
         found == SelectSeq(purged, LAMBDA r : r.id = id)
     IN /\ rows' = purged
        /\ th' = IF found = <<>> THEN th
                 ELSE [th EXCEPT ![t] =
                         [IdleThread EXCEPT !.pc = "upd_write", !.id = id,
                            !.fields = fields,
                            !.entry = RowToEntry(found[1])]]
  /\ UNCHANGED <<impl, clock, lock, returned, nextid, updated>>

\* the copy of update with the passed fields set: `if x is not None`
Patched(entry, fields, now) ==
  [entry EXCEPT
     !.text = IF fields.text # NONE THEN fields.text ELSE @,
     !.tags = IF fields.tags # NoList THEN fields.tags ELSE @,
     !.expires_at = IF fields.ttl # NoTTL THEN now + fields.ttl ELSE @,
     !.metadata = IF fields.metadata # NoList THEN fields.metadata ELSE @,
     !.importance = IF fields.importance # NoImportance
                      THEN fields.importance ELSE @]

\* UPDATE memory_entries SET text=?, tags=?, importance=?, expires_at=?,
\* metadata=? WHERE id=?: the five columns come from the copy
WriteBack(r, e) ==
  [r EXCEPT !.text = e.text, !.tags = DumpTags(e.tags),
            !.importance = e.importance, !.expires_at = e.expires_at,
            !.metadata = DumpMeta(e.metadata)]

\* update from its SELECT on: set the fields in the copy, UPDATE, commit
UpdateWrite(t) ==
  /\ th[t].pc = "upd_write"
  /\ LET e == Patched(th[t].entry, th[t].fields, clock)
     IN /\ rows' = [k \in 1..Len(rows) |->
                      IF rows[k].id = th[t].id THEN WriteBack(rows[k], e)
                      ELSE rows[k]]
        /\ updated' = updated + 1
  /\ th' = [th EXCEPT ![t] = IdleThread]
  /\ UNCHANGED <<impl, clock, lock, returned, nextid>>

\* prune_expired(): _purge_expired, then VACUUM
PruneExpired(t) ==
  /\ impl = "core"
  /\ th[t].pc = "idle"
  /\ rows' = PurgeExpired(rows, clock, impl, "")
  /\ UNCHANGED <<impl, clock, lock, th, returned, nextid, updated>>

\* the default threshold of prune_importance, 0.2, in tenths
PruneThreshold == 2

\* prune_importance(): DELETE ... WHERE importance < ?
PruneImportance(t) ==
  /\ impl = "core"
  /\ th[t].pc = "idle"
  /\ rows' = SelectSeq(rows, LAMBDA r : ~(r.importance < PruneThreshold))
  /\ UNCHANGED <<impl, clock, lock, th, returned, nextid, updated>>

(***************************************************************************)
(* The brain store's get_relevant and the MemoryInjector on top of it.     *)
(* Texts and prompts are character sequences here.                         *)
(***************************************************************************)
VARIABLES
  injected   \* the last inject_context call and how it ended

ivars == <<injected>>

NL == "\n"
\* "Fact: sky is blue", "Why blue?", "Why blue", "blue"
FactText ==
  <<"F", "a", "c", "t", ":", SP, "s", "k", "y", SP, "i", "s", SP, "b", "l", "u", "e">>
WhyBlueQ == <<"W", "h", "y", SP, "b", "l", "u", "e", "?">>
WhyBlue == <<"W", "h", "y", SP, "b", "l", "u", "e">>
Blue == <<"b", "l", "u", "e">>
\* "Context:", "- ", "Prompt: "
S_context == <<"C", "o", "n", "t", "e", "x", "t", ":">>
S_bullet == <<"-", SP>>
S_prompt == <<"P", "r", "o", "m", "p", "t", ":", SP>>

\* the characters in use that are neither letters nor digits
Separators == {SP, NL, ":", "?", "-"}
\* case folding of the unicode61 tokenizer, on the capitals in use
Lower(c) ==
  CASE c = "C" -> "c" [] c = "F" -> "f" [] c = "P" -> "p" [] c = "W" -> "w"
    [] OTHER -> c

\* the unicode61 tokenizer: the maximal runs of letters and digits, folded
RECURSIVE TokensFrom(_, _, _)
TokensFrom(s, i, word) ==
  IF i > Len(s) THEN (IF word = <<>> THEN <<>> ELSE <<word>>)
  ELSE IF s[i] \in Separators
       THEN (IF word = <<>> THEN <<>> ELSE <<word>>) \o TokensFrom(s, i + 1, <<>>)
       ELSE TokensFrom(s, i + 1, Append(word, Lower(s[i])))

Tokens(s) == TokensFrom(s, 1, <<>>)

\* an FTS5 query string made of barewords parses; one with another
\* character outside a quoted string ('?' is a syntax error, ':' and '-'
\* name a column) or without any word makes MATCH raise OperationalError.
\* None of the queries in use holds AND, OR, NOT, NEAR, a quote or a star.
FtsParses(query) ==
  /\ \A i \in 1..Len(query) : query[i] \in Separators => query[i] = SP
  /\ Tokens(query) # <<>>

\* memory_fts MATCH ?: every word of the query is a token of the text
FtsMatch(text, query) ==
  \A i \in 1..Len(Tokens(query)) :
    \E j \in 1..Len(Tokens(text)) : Tokens(text)[j] = Tokens(query)[i]

\* MemoryStore._row_to_entry of the brain store
BrainEntry(r) ==
  [text |-> r.text, tags |-> LoadTags(r.tags), importance |-> r.importance,
   created_at |-> r.created_at, expires_at |-> r.expires_at]

\* search: ... WHERE memory_fts MATCH ? ORDER BY e.created_at DESC LIMIT ?
BrainSearch(rs, agent, query, limit, tie) ==
  BrainLimit(SelectSeq(ShardRows(rs, agent), LAMBDA r : FtsMatch(r.indexed, query)),
             limit, tie)

\* by_tag: ... WHERE tags LIKE '%tag%' ...; no tag in use is part of another
\* one or of the JSON punctuation
BrainByTag(rs, agent, tag, limit, tie) ==
  BrainLimit(SelectSeq(ShardRows(rs, agent),
                       LAMBDA r : \E k \in 1..Len(LoadTags(r.tags)) : LoadTags(r.tags)[k] = tag),
             limit, tie)

\* for tag in tags: combined.extend(self.by_tag(agent_id, tag, limit=limit))
RECURSIVE ByTags(_, _, _, _, _)
ByTags(rs, agent, tags, limit, tie) ==
  IF tags = <<>> THEN <<>>
  ELSE BrainByTag(rs, agent, Head(tags), limit, tie)
       \o ByTags(rs, agent, Tail(tags), limit, tie)

\* the loop over `combined` with the `seen` set: the first entry of every
\* (text, tuple(tags)) key stays
RECURSIVE Deduped(_, _)
Deduped(combined, seen) ==
  IF combined = <<>> THEN <<>>
  ELSE LET m == Head(combined)
           key == <<m.text, m.tags>>
       IN IF key \in seen THEN Deduped(Tail(combined), seen)
          ELSE <<m>> \o Deduped(Tail(combined), seen \cup {key})

\* get_relevant of the brain store; raised: its search raised
BrainRelevant(rs, agent, query, limit, tags, tie) ==
  IF query # <<>> /\ ~FtsParses(query)
  THEN [raised |-> TRUE, memories |-> <<>>]
  ELSE LET found == IF query # <<>> THEN BrainSearch(rs, agent, query, limit, tie)
                    ELSE BrainGet(rs, agent, limit, tie)
           combined == ByTags(rs, agent, tags, limit, tie) \o found
           sorted == OrderRows(<<>>, combined, "rowid")
           entries == [k \in 1..Len(sorted) |-> BrainEntry(sorted[k])]
           deduped == Deduped(entries, {})
       IN [raised |-> FALSE,
           memories |-> SubSeq(deduped, 1, Min(limit, Len(deduped)))]

\* "\n".join(f"- {m.text}" for m in memories)
RECURSIVE Block(_)
Block(memories) ==
  IF memories = <<>> THEN <<>>
  ELSE S_bullet \o Head(memories).text
       \o (IF Len(memories) > 1 THEN <<NL>> \o Block(Tail(memories)) ELSE <<>>)

\* the return value of inject_context for a block
Framed(block, prompt) ==
  IF block # <<>> THEN S_context \o <<NL>> \o block \o <<NL, NL>> \o S_prompt \o prompt
  ELSE prompt

\* no inject_context call yet
NoInjection ==
  [called |-> FALSE, agent |-> "", prompt |-> <<>>, tags |-> <<>>, held |-> <<>>,
   raised |-> FALSE, memories |-> <<>>, out |-> <<>>]

\* MemoryInjector.inject_context (limit 5), start to end: every query of
\* get_relevant takes the lock and prunes the expired rows of the shard;
\* held: the entries of the shard when the call began
InjectContext(t, agent, prompt, tags, tie) ==
  /\ impl = "brain"
  /\ th[t].pc = "idle"
  /\ lock = 0
  /\ rows' = PurgeExpired(rows, clock, impl, agent)
  /\ LET rel == BrainRelevant(rows', agent, prompt, MEMORY_MAX_RESULTS, tags, tie)
     IN injected' =
          [called |-> TRUE, agent |-> agent, prompt |-> prompt, tags |-> tags,
           held |-> [k \in 1..Len(ShardRows(rows', agent)) |->
                       BrainEntry(ShardRows(rows', agent)[k])],
           raised |-> rel.raised, memories |-> rel.memories,
           out |-> IF rel.raised THEN <<>>
                   ELSE Framed(Block(rel.memories), prompt)]
  /\ UNCHANGED <<impl, clock, lock, th, returned, nextid, updated>>

\* add(agent, text, blob=...) on a MemoryStore of another shard, start to
\* end: the blob goes to the one BLOBS_DIR, the row to the other database file
AddElsewhere(agent, text) ==
  /\ impl = "core"
  /\ nextid <= MaxAdds
  /\ blobs' = blobs \cup {nextid}
  /\ other_rows' = Append(other_rows,
       [id |-> nextid, agent |-> agent, created_at |-> clock,
        expires_at |-> NoExpiry, deleted |-> FALSE, text |-> text,
        indexed |-> text, tags |-> DumpTags(<<>>), importance |-> Importance0,
        metadata |-> DumpMeta(<<>>), blob_ref |-> nextid])
  /\ nextid' = nextid + 1
  /\ UNCHANGED <<impl, clock, rows, lock, th, returned, updated>>

\* SELECT blob_ref FROM memory_entries WHERE blob_ref IS NOT NULL, on the
\* database file of this store
BlobRefs(rs) == {rs[k].blob_ref : k \in {j \in 1..Len(rs) : rs[j].blob_ref # NoBlobRef}}

\* the loop of cleanup_orphan_blobs over BLOBS_DIR.glob("*.bin"): the files
\* that stay
KeptBlobs(files, refs) == {b \in files : b \in refs}

\* cleanup_orphan_blobs up to conn.close(): the names referenced in this shard
CleanupSelect(t) ==
  /\ impl = "core"
  /\ th[t].pc = "idle"
  /\ th' = [th EXCEPT ![t] =
              [IdleThread EXCEPT !.pc = "cleanup", !.refs = BlobRefs(rows)]]
  /\ UNCHANGED <<impl, clock, rows, lock, returned, nextid, updated, bvars>>

\* cleanup_orphan_blobs from the glob on: unlink every file not in refs
CleanupUnlink(t) ==
  /\ th[t].pc = "cleanup"
  /\ blobs' = KeptBlobs(blobs, th[t].refs)
  /\ th' = [th EXCEPT ![t] = IdleThread]
  /\ UNCHANGED <<impl, clock, rows, lock, returned, nextid, updated, other_rows>>

\* time passes
Tick ==
  /\ clock < MaxClock
  /\ clock' = clock + 1
  /\ UNCHANGED <<impl, rows, lock, th, returned, nextid, updated>>

(***************************************************************************)
(* The orchestration pipeline: run_orchestration_pipeline.                 *)
(***************************************************************************)
VARIABLES
  opc,       \* where the running pipeline stands; "idle" between runs
  omode,     \* RAEBURN_ORCHESTRATOR_MODE of the run
  opriority, \* the priority of the task
  ocands,    \* the candidates route_prompt returned
  obest,     \* the winner judge_outputs chose; 0 before
  ofailed,   \* the stage that raised in this run; "" if none
  oraised,   \* the exception that left the pipeline; NONE if none
  memories,  \* the interaction memories written, as the runs that wrote them
  qualities, \* the quality records written, as the runs that wrote them
  events,    \* the events logged by the running pipeline
  oruns      \* the number of the run

ovars ==
  <<opc, omode, opriority, ocands, obest, ofailed, oraised, memories,
    qualities, events, oruns>>

MaxRuns == 2

\* os.getenv("RAEBURN_ORCHESTRATOR_MODE", "prod")
Modes == {"prod", "dry-run", "test"}
Priorities == {1, 2}
\* what a stage that fails raises
StageErrors == {"fail"}
\* the candidate lists route_prompt hands back, by their ids: the providers
\* that answered, or the one synthesized "fallback"
CandidateLists == {<<"fallback">>, <<"openai">>, <<"openai", "openrouter">>}

\* a pipeline that writes the interaction memory in every mode
SavesMemoryAlways(mode) == TRUE

\* if mode != "dry-run": await MemoryStore().save_memory(memory)
SavesMemory(mode) == mode # "dry-run"

\* if mode != "test": await log_event("orchestration_complete", ...)
LogsComplete(mode) == mode # "test"

\* the order of the stages when every error is swallowed
StageAfterSwallowing(stage, mode, raised) ==
  CASE stage = "route" -> "judge"
    [] stage = "judge" -> IF SavesMemory(mode) THEN "save" ELSE "quality"
    [] stage = "save" -> "quality"
    [] stage = "quality" -> IF LogsComplete(mode) THEN "log" ELSE "return"
    [] stage = "log" -> "return"

\* the order of the stages: route and judge inside the try block, then
\* save_memory, record_quality, log_event; an exception leaves the pipeline
\* from any stage
StageAfter(stage, mode, raised) ==
  IF raised THEN "raised"
  ELSE CASE stage = "route" -> "judge"
         [] stage = "judge" -> IF SavesMemory(mode) THEN "save" ELSE "quality"
         [] stage = "save" -> "quality"
         [] stage = "quality" -> IF LogsComplete(mode) THEN "log" ELSE "return"
         [] stage = "log" -> "return"

OInit ==
  /\ opc = "idle"
  /\ omode = "prod"
  /\ opriority = 1
  /\ ocands = <<>>
  /\ obest = 0
  /\ ofailed = ""
  /\ oraised = NONE
  /\ memories = <<>>
  /\ qualities = <<>>
  /\ events = <<>>
  /\ oruns = 0

\* the run starts: task, session id, mode, agent, injected context, prompt
OrchBegin(mode, priority) ==
  /\ opc \in {"idle", "returned", "raised"}
  /\ oruns < MaxRuns
  /\ oruns' = oruns + 1
  /\ opc' = "route"
  /\ omode' = mode
  /\ opriority' = priority
  /\ ocands' = <<>>
  /\ obest' = 0
  /\ ofailed' = ""
  /\ oraised' = NONE
  /\ events' = <<>>
  /\ UNCHANGED <<memories, qualities>>

\* a stage inside the try block raises: log orchestration_error, re-raise
OrchTryRaise(err) ==
  /\ opc \in {"route", "judge"}
  /\ ofailed' = opc
  /\ events' = Append(events, "orchestration_error")
  /\ opc' = StageAfter(opc, omode, TRUE)
  /\ oraised' = IF opc' = "raised" THEN err ELSE oraised
  /\ UNCHANGED <<omode, opriority, ocands, obest, memories, qualities, oruns>>

\* route_prompt returns its candidates
OrchRoute(cands) ==
  /\ opc = "route"
  /\ ocands' = cands
  /\ opc' = StageAfter(opc, omode, FALSE)
  /\ UNCHANGED <<omode, opriority, obest, ofailed, oraised, memories,
                 qualities, events, oruns>>

\* judge_outputs returns one of the candidates and a score for every id
OrchJudge(best) ==
  /\ opc = "judge"
  /\ best \in 1..Max(1, Len(ocands))
  /\ obest' = best
  /\ opc' = StageAfter(opc, omode, FALSE)
  /\ UNCHANGED <<omode, opriority, ocands, ofailed, oraised, memories,
                 qualities, events, oruns>>

\* await MemoryStore().save_memory(memory): one interaction memory
OrchSave ==
  /\ opc = "save"
  /\ memories' = Append(memories, oruns)
  /\ opc' = StageAfter(opc, omode, FALSE)
  /\ UNCHANGED <<omode, opriority, ocands, obest, ofailed, oraised, qualities,
                 events, oruns>>

\* await record_quality(best["model"], scores[best["id"]], session_id)
OrchQuality ==
  /\ opc = "quality"
  /\ qualities' = Append(qualities, oruns)
  /\ opc' = StageAfter(opc, omode, FALSE)
  /\ UNCHANGED <<omode, opriority, ocands, obest, ofailed, oraised, memories,
                 events, oruns>>

\* await log_event("orchestration_complete", ...)
OrchLog ==
  /\ opc = "log"
  /\ events' = Append(events, "orchestration_complete")
  /\ opc' = StageAfter(opc, omode, FALSE)
  /\ UNCHANGED <<omode, opriority, ocands, obest, ofailed, oraised, memories,
                 qualities, oruns>>

\* save_memory, record_quality or log_event raises: nothing catches it
OrchLateRaise(err) ==
  /\ opc \in {"save", "quality", "log"}
  /\ ofailed' = opc
  /\ opc' = StageAfter(opc, omode, TRUE)
  /\ oraised' = IF opc' = "raised" THEN err ELSE oraised
  /\ UNCHANGED <<omode, opriority, ocands, obest, memories, qualities, events,
                 oruns>>

\* return {...}
OrchReturn ==
  /\ opc = "return"
  /\ opc' = "returned"
  /\ UNCHANGED <<omode, opriority, ocands, obest, ofailed, oraised, memories,
                 qualities, events, oruns>>

(***************************************************************************)
(* The scoring of one response by Router.route: hybrid_score times         *)
(* _bias_multiplier, over descriptor bias configurations, tasks, prompts   *)
(* and adapter health states.                                              *)
(***************************************************************************)
VARIABLES
  spc,       \* "chosen" | "generated" | "routed"
  sprompt,   \* RouterRequest.prompt
  stask,     \* RouterRequest.task
  sfetcher,  \* the adapter choose returned, with its health counters
  sres,      \* the dict its generate returned
  srouted    \* the RouterResponse route built from it

svars == <<spc, sprompt, stask, sfetcher, sres, srouted>>

\* the largest failure_count an adapter starts with
MaxFailures == 9

\* "Why is sky blue?"
LongPrompt ==
  <<"W", "h", "y", SP, "i", "s", SP, "s", "k", "y", SP, "b", "l", "u", "e", "?">>
Prompts == {Prompt, LongPrompt}
Tasks == {"", "code"}
TaskSets == {{}, {"code"}}

\* registry entries over the fields _bias_multiplier reads
BiasModels ==
  { [RawModel("A", p) EXCEPT
       !.prefer_for = pf, !.avoid_for = av, !.strengths = st, !.weaknesses = wk,
       !.cost = co, !.speed = sp, !.last_passed_health = lp] :
    p \in {"local", "openai"}, pf \in TaskSets, av \in TaskSets,
    st \in TaskSets, wk \in TaskSets, co \in {0, 1}, sp \in {0, 200},
    lp \in {NONE, "t0"} }

SInit ==
  /\ spc = "chosen"
  /\ sprompt \in Prompts
  /\ stask \in Tasks
  /\ \E raw \in BiasModels, n \in 0..MaxFailures :
       LET meta == FromDict(raw)
       IN sfetcher = [NewFetcher(meta.name, meta, BuildKind(meta)) EXCEPT
                        !.failure_count = n, !.health_ok = (n = 0)]
  /\ sfetcher.kind = "local" \/ sprompt = Prompt
  /\ sres = NoResult
  /\ srouted = NoResult

SIdle ==
  /\ spc = "idle"
  /\ sprompt = Prompt
  /\ stask = ""
  /\ sfetcher = NewFetcher(LocalEchoMeta.name, LocalEchoMeta, "local")
  /\ sres = NoResult
  /\ srouted = NoResult

\* generate has returned through _response
ScoreGenerated(content, latency_ms, error) ==
  /\ sres' = Response(sfetcher, content, latency_ms, error)
  /\ sfetcher' = Record(sfetcher, latency_ms, error)
  /\ spc' = "generated"
  /\ UNCHANGED <<sprompt, stask, srouted>>

\* LocalFetcher.generate
ScoreGenerateLocal ==
  /\ spc = "chosen"
  /\ sfetcher.kind = "local"
  /\ ScoreGenerated(sprompt \o S_local \o NameChars(sfetcher.name) \o S_close, 0, NONE)

\* OpenAIFetcher.generate, by the outcome of its last attempt
ScoreGenerateHttp(out, latency_ms) ==
  /\ spc = "chosen"
  /\ sfetcher.kind = "openai"
  /\ out \in {"ok", "http5xx"}
  /\ ScoreGenerated(FinalContent("openai", Parsed(out), ErrText(out)), latency_ms,
                    ErrText(out))

\* the scoring loop of Router.route for this response
ScoreRoute ==
  /\ spc = "generated"
  /\ srouted' = Routed(sprompt, stask, <<sfetcher.name>>,
                       (sfetcher.name :> sfetcher), sres)
  /\ spc' = "routed"
  /\ UNCHANGED <<sprompt, stask, sfetcher, sres>>

(***************************************************************************)
(* route_prompt of the core router: one call per configured provider that  *)
(* has a function, each under asyncio.wait_for, gathered or awaited in     *)
(* order.                                                                  *)
(***************************************************************************)
VARIABLES
  ppc,        \* "idle" | "wait" | "done": where route_prompt stands
  pnames,     \* `names` of _get_providers
  pparallel,  \* the parallel argument
  ptasks,     \* one asyncio task per used name, in the order of used_names
  presults,   \* the list route_prompt returned
  pevents     \* the router_error events route_prompt logged, by provider

pvars == <<ppc, pnames, pparallel, ptasks, presults, pevents>>

\* the keys of default_funcs
DefaultFuncs == {"openrouter", "huggingface", "openai"}

\* the provider lists of RAEBURN_ROUTER_PROVIDERS or of the config file; a
\* name without a `call` entry that is not a default has no function
ProviderLists ==
  { <<"openrouter", "huggingface", "openai">>,
    <<"huggingface">>,
    <<"custom", "openai", "openrouter">>,
    <<"custom">>,
    <<>> }

\* used_names: the names that have a function
RECURSIVE UsedNames(_)
UsedNames(names) ==
  IF names = <<>> THEN <<>>
  ELSE (IF Head(names) \in DefaultFuncs THEN <<Head(names)>> ELSE <<>>)
       \o UsedNames(Tail(names))

\* how the task of a call can end: the function returns its reply, returns
\* its mock for a missing credential, returns the error of its last attempt,
\* raises, or wait_for raises TimeoutError
CallEnds == {"ok", "mock", "failed", "raised", "timeout"}

\* a variant that takes only what the function raised itself for an exception
IsExceptionRaisedOnly(st) == st = "raised"

\* isinstance(r, Exception) for the response of a task that ended with st
IsException(st) == st \in {"raised", "timeout"}

\* the dict a provider function returns
ProviderReply(name, st) ==
  [id |-> name, mock |-> st = "mock",
   content |-> CASE st = "ok" -> BodyText
                 [] st = "mock" -> Prompt \o Suffix(name)
                 [] OTHER -> <<>>,
   error |-> CASE st = "ok" -> NONE
               [] st = "mock" -> MissingError(name)
               [] OTHER -> ErrText("http5xx")]

\* the response appended when no provider is left
FallbackReply(prompt) ==
  [id |-> "fallback", mock |-> FALSE, content |-> prompt,
   error |-> "no_providers_succeeded"]

\* the loop over zip(used_names, responses): the replies kept
RECURSIVE KeptReplies(_, _)
KeptReplies(ts, i) ==
  IF i > Len(ts) THEN <<>>
  ELSE (IF IsException(ts[i].st) THEN <<>> ELSE <<ProviderReply(ts[i].name, ts[i].st)>>)
       \o KeptReplies(ts, i + 1)

\* the same loop: the providers a router_error event is logged for
RECURSIVE LoggedErrors(_, _)
LoggedErrors(ts, i) ==
  IF i > Len(ts) THEN <<>>
  ELSE (IF IsException(ts[i].st) THEN <<ts[i].name>> ELSE <<>>)
       \o LoggedErrors(ts, i + 1)

PIdle ==
  /\ ppc = "idle"
  /\ pnames = <<>>
  /\ pparallel = FALSE
  /\ ptasks = <<>>
  /\ presults = <<>>
  /\ pevents = <<>>

\* route_prompt up to its first await: asyncio.create_task for every used
\* name; the tasks are scheduled and none has run yet
PromptBegin(names, parallel) ==
  /\ ppc \in {"idle", "done"}
  /\ pnames' = names
  /\ pparallel' = parallel
  /\ ptasks' = [i \in 1..Len(UsedNames(names)) |->
                  [name |-> UsedNames(names)[i], st |-> "scheduled"]]
  /\ presults' = <<>>
  /\ pevents' = <<>>
  /\ ppc' = "wait"

\* the event loop runs the first step of a scheduled task, in the order of
\* creation: the provider function is called and its request is in flight
CallStart(i) ==
  /\ ppc = "wait"
  /\ ptasks[i].st = "scheduled"
  /\ \A j \in 1..(i - 1) : ptasks[j].st # "scheduled"
  /\ ptasks' = [ptasks EXCEPT ![i].st = "running"]
  /\ UNCHANGED <<ppc, pnames, pparallel, presults, pevents>>

\* the task of a call ends
CallEnd(i, st) ==
  /\ ppc = "wait"
  /\ ptasks[i].st = "running"
  /\ ptasks' = [ptasks EXCEPT ![i].st = st]
  /\ UNCHANGED <<ppc, pnames, pparallel, presults, pevents>>

\* gather, or the loop of `await t`, has every response: the loop over the
\* responses, the fallback and the return
PromptReturn ==
  /\ ppc = "wait"
  /\ \A i \in 1..Len(ptasks) : ptasks[i].st \in CallEnds
  /\ LET results == KeptReplies(ptasks, 1)
     IN presults' = IF results = <<>> THEN <<FallbackReply(Prompt)>> ELSE results
  /\ pevents' = LoggedErrors(ptasks, 1)
  /\ ppc' = "done"
  /\ UNCHANGED <<pnames, pparallel, ptasks>>

(***************************************************************************)
(* BanditRouter of raeburn_brain.core with the UCB1 strategy.  Scores are  *)
(* kept in ten-thousandths.                                                *)
(***************************************************************************)
VARIABLES
  bmodels,   \* the model names, in the order of the dict BanditRouter.models
  bstats,    \* BanditRouter.models: name -> ModelStats
  bpc,       \* "idle" | "loop" | "fallback" | "done": where execute stands
  bworks,    \* the models func succeeds for during this execute
  bfallback, \* "none" | "fails" | "works": the fallback argument
  bleft,     \* iterations of `for _ in range(attempts)` still to come
  bcalls,    \* the calls of func made by this execute
  bout,      \* how execute ended
  bexecs     \* execute calls started

bandvars == <<bmodels, bstats, bpc, bworks, bfallback, bleft, bcalls, bout, bexecs>>

MaxExecs == 3

ModelLists == { <<"m1", "m2">>, <<"m1", "m2", "m3">> }

\* int(log(t) * 10000) for t = 1, 2, ...
LogTable ==
  <<0, 6931, 10986, 13862, 16094, 17917, 19459, 20794, 21972, 23025, 23978,
    24849, 25649, 26390>>

\* the integer square root
RECURSIVE IsqrtBetween(_, _, _)
IsqrtBetween(n, lo, hi) ==
  IF lo >= hi THEN lo
  ELSE LET mid == (lo + hi + 1) \div 2
       IN IF mid * mid <= n THEN IsqrtBetween(n, mid, hi)
          ELSE IsqrtBetween(n, lo, mid - 1)
Isqrt(n) == IsqrtBetween(n, 0, 30000)

\* float("inf")
Infinity == 1000000000

\* ModelStats(name)
NewStats == [successes |-> 0, trials |-> 0]

\* ModelStats.record
StatsRecord(m, success) ==
  [successes |-> IF success THEN m.successes + 1 ELSE m.successes,
   trials |-> m.trials + 1]

\* BanditStrategy.update
Update(stats, model, success) ==
  [stats EXCEPT ![model] = StatsRecord(stats[model], success)]

RECURSIVE SumTrials(_, _, _)
SumTrials(names, stats, i) ==
  IF i > Len(names) THEN 0 ELSE stats[names[i]].trials + SumTrials(names, stats, i + 1)

\* the score of UCB1Strategy.select: avg + sqrt(2 * log(total_trials) / trials)
Ucb1Score(m, total_trials) ==
  IF m.trials = 0 THEN Infinity
  ELSE (m.successes * 10000) \div m.trials
       + Isqrt((2 * LogTable[total_trials] * 10000) \div m.trials)

\* max(scores, key=scores.get): the first name with the largest score
RECURSIVE ArgMax(_, _, _, _, _)
ArgMax(names, stats, total, i, best) ==
  IF i > Len(names) THEN names[best]
  ELSE ArgMax(names, stats, total, i + 1,
              IF Ucb1Score(stats[names[i]], total) > Ucb1Score(stats[names[best]], total)
              THEN i ELSE best)

\* UCB1Strategy.select
Ucb1Select(names, stats) ==
  LET sum == SumTrials(names, stats, 1)
      total_trials == IF sum = 0 THEN 1 ELSE sum
  IN ArgMax(names, stats, total_trials, 2, 1)

NoOutcome == [kind |-> "none", model |-> "", via |-> ""]

BInit ==
  /\ bmodels \in ModelLists
  /\ bstats = [n \in {bmodels[i] : i \in 1..Len(bmodels)} |-> NewStats]
  /\ bpc = "idle"
  /\ bworks = {}
  /\ bfallback = "none"
  /\ bleft = 0
  /\ bcalls = <<>>
  /\ bout = NoOutcome
  /\ bexecs = 0

\* no BanditRouter in use
BanditIdle ==
  /\ bmodels = <<>>
  /\ bstats = <<>>
  /\ bpc = "idle"
  /\ bworks = {}
  /\ bfallback = "none"
  /\ bleft = 0
  /\ bcalls = <<>>
  /\ bout = NoOutcome
  /\ bexecs = 0

\* execute starts: attempts = attempts or len(self.models)
ExecuteBegin(works, fallback) ==
  /\ bpc \in {"idle", "done"}
  /\ bexecs < MaxExecs
  /\ bexecs' = bexecs + 1
  /\ bworks' = works
  /\ bfallback' = fallback
  /\ bleft' = Len(bmodels)
  /\ bcalls' = <<>>
  /\ bout' = NoOutcome
  /\ bpc' = "loop"
  /\ UNCHANGED <<bmodels, bstats>>

\* one iteration up to the fallback: select, await func(name), record
ExecuteCall ==
  /\ bpc = "loop"
  /\ bleft > 0
  /\ LET name == Ucb1Select(bmodels, bstats)
         success == name \in bworks
     IN /\ bcalls' = Append(bcalls, [model |-> name, trials |-> bstats[name].trials,
                                     untried |-> {n \in DOMAIN bstats : bstats[n].trials = 0}])
        /\ bstats' = Update(bstats, name, success)
        /\ bleft' = bleft - 1
        /\ IF success
           THEN bpc' = "done" /\ bout' = [kind |-> "returned", model |-> name, via |-> "func"]
           ELSE /\ bpc' = IF bfallback # "none" THEN "fallback" ELSE "loop"
                /\ bout' = [kind |-> "none", model |-> name, via |-> "func"]
  /\ UNCHANGED <<bmodels, bworks, bfallback, bexecs>>

\* await fallback(name) after func raised
ExecuteFallback ==
  /\ bpc = "fallback"
  /\ IF bfallback = "works"
     THEN /\ bstats' = Update(bstats, bout.model, TRUE)
          /\ bpc' = "done"
          /\ bout' = [kind |-> "returned", model |-> bout.model, via |-> "fallback"]
     ELSE /\ bstats' = bstats
          /\ bpc' = "loop"
          /\ bout' = [kind |-> "none", model |-> bout.model, via |-> "fallback"]
  /\ UNCHANGED <<bmodels, bworks, bfallback, bleft, bcalls, bexecs>>

\* the loop is over: raise last_exc
ExecuteRaise ==
  /\ bpc = "loop"
  /\ bleft = 0
  /\ bpc' = "done"
  /\ bout' = [kind |-> "raised", model |-> bout.model, via |-> bout.via]
  /\ UNCHANGED <<bmodels, bstats, bworks, bfallback, bleft, bcalls, bexecs>>

(***************************************************************************)
(* Agents of raeburn_brain.agent: the row of one agent in the agents table *)
(* under AgentRegistry.record.                                             *)
(***************************************************************************)
VARIABLES
  agent_row   \* the row of the agent: title, score, trials, successes, sandboxed

avars == <<agent_row>>

MaxRecords == 25

\* the row ensure inserts: the column defaults
NewAgent ==
  [title |-> "novice", score |-> Frac(0, 1), trials |-> 0, successes |-> 0,
   sandboxed |-> FALSE]

\* score >= num/den and score <= num/den for a score in lowest terms
ScoreGeq(score, num, den) == score.n * den >= num * score.d
ScoreLeq(score, num, den) == score.n * den <= num * score.d

\* a variant of _update_status without the guard on the number of trials
UpdateStatusEarly(a) ==
  IF ScoreGeq(a.score, 8, 10) THEN [a EXCEPT !.title = "promoted", !.sandboxed = FALSE]
  ELSE IF ScoreLeq(a.score, 2, 10) THEN [a EXCEPT !.title = "sandboxed", !.sandboxed = TRUE]
  ELSE IF ScoreLeq(a.score, 5, 10) THEN [a EXCEPT !.title = "demoted", !.sandboxed = FALSE]
  ELSE a

\* Agent._update_status
UpdateStatus(a) ==
  IF a.trials < 5 THEN a
  ELSE IF ScoreGeq(a.score, 8, 10) THEN [a EXCEPT !.title = "promoted", !.sandboxed = FALSE]
  ELSE IF ScoreLeq(a.score, 2, 10) THEN [a EXCEPT !.title = "sandboxed", !.sandboxed = TRUE]
  ELSE IF ScoreLeq(a.score, 5, 10) THEN [a EXCEPT !.title = "demoted", !.sandboxed = FALSE]
  ELSE a

\* Agent.record_result
RecordResult(a, success) ==
  LET trials == a.trials + 1
      successes == IF success THEN a.successes + 1 ELSE a.successes
  IN UpdateStatus([a EXCEPT !.trials = trials, !.successes = successes,
                            !.score = Frac(successes, trials)])

AInit == agent_row = NewAgent

\* AgentRegistry.record: the row is read into an Agent, record_result runs
\* and every field but the id is written back
RegistryRecord(success) ==
  /\ agent_row.trials < MaxRecords
  /\ agent_row' = RecordResult(agent_row, success)

\* the variables of the subsystems outside the model router and the stores
(***************************************************************************)
(* One adapter over a run of generate calls: the latency samples that      *)
(* _record has seen and the average before the last of them.               *)
(***************************************************************************)
VARIABLES
  lfetcher,  \* the adapter, with its health counters
  lsamples,  \* the latency_ms of every _record call so far
  lprev      \* recent_latency_avg before the last _record call

lvars == <<lfetcher, lsamples, lprev>>

MaxSamples == 4
\* int((time.monotonic() - start) * 1000) around an HTTP request
HttpLatencies == {3, 10}

LIdle ==
  /\ lfetcher = NewFetcher(LocalEchoMeta.name, LocalEchoMeta, "local")
  /\ lsamples = <<>>
  /\ lprev = lfetcher.recent_latency_avg

LInit ==
  /\ \E kind \in {"local", "openai"} :
       lfetcher = NewFetcher(LocalEchoMeta.name, LocalEchoMeta, kind)
  /\ lsamples = <<>>
  /\ lprev = lfetcher.recent_latency_avg

\* generate has returned through _response: _record(latency_ms, error)
Sampled(latency_ms, error) ==
  /\ Len(lsamples) < MaxSamples
  /\ lprev' = lfetcher.recent_latency_avg
  /\ lfetcher' = Record(lfetcher, latency_ms, error)
  /\ lsamples' = Append(lsamples, latency_ms)

\* LocalFetcher.generate: the two clock readings are one statement apart
SampleLocal ==
  /\ lfetcher.kind = "local"
  /\ Sampled(0, NONE)

\* OpenAIFetcher.generate without OPENAI_API_KEY: it returns at once, with
\* the error "missing_api_key"
SampleMissingKey ==
  /\ lfetcher.kind = "openai"
  /\ Sampled(0, "missing_api_key")

\* OpenAIFetcher.generate with a key, by the outcome of its last attempt
SampleHttp(out, latency_ms) ==
  /\ lfetcher.kind = "openai"
  /\ out \in {"ok", "http5xx"}
  /\ Sampled(latency_ms, ErrText(out))

(***************************************************************************)
(* InMemoryBackend: per agent the list of entries and the matrix of their  *)
(* embeddings, one row per add.  Importances are in tenths.                *)
(***************************************************************************)
VARIABLES
  vstore,    \* InMemoryBackend._store: agent -> entries (<<>>: no key)
  vvectors,  \* InMemoryBackend._vectors: agent -> rows
  vresult    \* what the last call returned, <<>> for None

vvars == <<vstore, vvectors, vresult>>

MaxEntries == 2
VAgents == {"a", "b"}
VTexts == {"x", "y"}
Dims == 2

\* hashlib.sha256(text.encode()).digest(), its first Dims bytes
Sha256Head(text) ==
  CASE text = "x" -> <<45, 113>>
    [] text = "y" -> <<161, 252>>

\* _default_embed: the digest bytes resized to dims, over 255; the rows are
\* kept as their numerators
DefaultEmbed(text, dims) == SubSeq(Sha256Head(text), 1, dims)

\* np.linalg.norm(row - vec), squared and times 255 * 255
Dist(row, vec) ==
  (row[1] - vec[1]) * (row[1] - vec[1]) + (row[2] - vec[2]) * (row[2] - vec[2])

\* np.argsort(dists): the row numbers by ascending distance, equal
\* distances in row order
RECURSIVE ArgSort(_, _)
ArgSort(dists, left) ==
  IF left = {} THEN <<>>
  ELSE LET i == CHOOSE k \in left :
                  \A j \in left : dists[k] < dists[j] \/ (dists[k] = dists[j] /\ k <= j)
       IN <<i>> \o ArgSort(dists, left \ {i})

VInit ==
  /\ vstore = [a \in VAgents |-> <<>>]
  /\ vvectors = [a \in VAgents |-> <<>>]
  /\ vresult = <<>>

\* InMemoryBackend.add
BackendAdd(agent, text, importance) ==
  /\ Len(vstore[agent]) < MaxEntries
  /\ vstore' = [vstore EXCEPT
                  ![agent] = Append(@, [text |-> text, importance |-> importance])]
  /\ vvectors' = [vvectors EXCEPT ![agent] = Append(@, DefaultEmbed(text, Dims))]
  /\ vresult' = <<>>

\* a variant of prune that keeps the rows of the kept entries
PruneAligned(agent, threshold) ==
  LET keep == {i \in 1..Len(vstore[agent]) : vstore[agent][i].importance >= threshold}
      Kept(seq) == [k \in 1..Cardinality(keep) |->
                      seq[CHOOSE i \in keep : Cardinality({j \in keep : j <= i}) = k]]
  IN /\ vstore' = [vstore EXCEPT ![agent] = Kept(@)]
     /\ vvectors' = [vvectors EXCEPT ![agent] = Kept(@)]
     /\ vresult' = <<>>

\* InMemoryBackend.prune with ttl None: the entries at or above the
\* threshold stay, and as many rows from the end of the matrix
BackendPrune(agent, threshold) ==
  LET items == SelectSeq(vstore[agent], LAMBDA e : e.importance >= threshold)
      n == Len(vvectors[agent])
  IN /\ vstore' = [vstore EXCEPT ![agent] = items]
     /\ vvectors' = [vvectors EXCEPT
                       ![agent] = IF items # <<>>
                                    THEN SubSeq(@, n - Len(items) + 1, n)
                                    ELSE <<>>]
     /\ vresult' = <<>>

\* InMemoryBackend.similar
BackendSimilar(agent, text, limit) ==
  LET vec == DefaultEmbed(text, Dims)
      matrix == vvectors[agent]
      dists == [i \in 1..Len(matrix) |-> Dist(matrix[i], vec)]
      sorted == ArgSort(dists, 1..Len(matrix))
      idxs == SubSeq(sorted, 1, Min(limit, Len(sorted)))
  IN /\ vresult' = [agent |-> agent, text |-> text,
                     entries |-> [k \in 1..Len(idxs) |-> vstore[agent][idxs[k]]]]
     /\ UNCHANGED <<vstore, vvectors>>

\* the search configuration, the adapter health and the in-memory backend
wvars == <<tvars, lvars, vvars>>

WIdle == TIdle /\ LIdle /\ VInit

yvars == <<pvars, bandvars, avars, wvars>>

YIdle == PIdle /\ BanditIdle /\ AInit /\ WIdle

\* everything outside the router, the stores and the pipeline
xvars == <<svars, bvars, ivars, yvars>>

\* no blob written yet
BIdle ==
  /\ blobs = {}
  /\ other_rows = <<>>

\* no injection made
IIdle == injected = NoInjection

XIdle == SIdle /\ BIdle /\ IIdle /\ YIdle

\* the router at rest while the memory store is exercised, and the reverse
RIdle ==
  /\ registry = <<>>
  /\ metas = ParseModels(<<>>, <<>>)
  /\ cache = <<>>
  /\ env = {}
  /\ rpc = "idle"
  /\ req = NoRequest
  /\ fetchers = <<>>
  /\ tasks = <<>>
  /\ routed = <<>>
  /\ nroutes = 0

MIdle ==
  /\ impl = "core"
  /\ clock = 1
  /\ rows = <<>>
  /\ lock = 0
  /\ th = [t \in Threads |-> IdleThread]
  /\ returned = {}
  /\ nextid = 1
  /\ updated = 0

vars == <<rvars, mvars, ovars, xvars>>

Next ==
  \/ (\E r \in Requests : RouteBegin(r)) /\ UNCHANGED <<mvars, ovars, xvars>>
  \/ (\E i \in 1..Len(tasks) : GenerateLocal(i)) /\ UNCHANGED <<mvars, ovars, xvars>>
  \/ (\E i \in 1..Len(tasks) : GenerateMissing(i)) /\ UNCHANGED <<mvars, ovars, xvars>>
  \/ (\E i \in 1..Len(tasks), out \in Failures : HttpRetry(i, out))
     /\ UNCHANGED <<mvars, ovars, xvars>>
  \/ (\E i \in 1..Len(tasks), out \in Failures \cup Replies, l \in Latencies :
        HttpFinish(i, out, l)) /\ UNCHANGED <<mvars, ovars, xvars>>
  \/ (\E i \in 1..Len(tasks), out \in Failures \cup Replies, l \in Latencies :
        GenerateOllama(i, out, l)) /\ UNCHANGED <<mvars, ovars, xvars>>
  \/ (\E i \in 1..Len(tasks), msg \in ExcTexts : GenerateRaise(i, msg))
     /\ UNCHANGED <<mvars, ovars, xvars>>
  \/ RouteEnd /\ UNCHANGED <<mvars, ovars, xvars>>
  \/ RouteCancel /\ UNCHANGED <<mvars, ovars, xvars>>

Init == RInit /\ MIdle /\ OInit /\ XIdle

Spec == Init /\ [][Next]_vars

MNext ==
  \/ (\E t \in Threads, a \in Agents, ttl \in TTLs : AddBegin(t, a, "t0", ttl))
     /\ UNCHANGED <<rvars, ovars, xvars>>
  \/ (\E t \in Threads : AddLock(t)) /\ UNCHANGED <<rvars, ovars, xvars>>
  \/ (\E t \in Threads : AddPurge(t)) /\ UNCHANGED <<rvars, ovars, xvars>>
  \/ (\E t \in Threads : AddInsert(t)) /\ UNCHANGED <<rvars, ovars, xvars>>
  \/ (\E t \in Readers, a \in Agents, l \in Limits : GetBegin(t, a, l, FALSE))
     /\ UNCHANGED <<rvars, ovars, xvars>>
  \/ (\E t \in Threads : GetLock(t)) /\ UNCHANGED <<rvars, ovars, xvars>>
  \/ (\E t \in Threads : GetPurge(t)) /\ UNCHANGED <<rvars, ovars, xvars>>
  \/ (\E t \in Threads, tie \in {"rowid", "reverse"} : GetSelect(t, tie))
     /\ UNCHANGED <<rvars, ovars, xvars>>
  \/ (\E t \in Threads : GetReturn(t)) /\ UNCHANGED <<rvars, ovars, xvars>>
  \/ (\E t \in Threads, id \in 1..MaxAdds : SoftDelete(t, id)) /\ UNCHANGED <<rvars, ovars, xvars>>
  \/ (\E t \in Threads, id \in 1..MaxAdds : Delete(t, id)) /\ UNCHANGED <<rvars, ovars, xvars>>
  \/ Tick /\ UNCHANGED <<rvars, ovars, xvars>>

MemInit == MInit /\ RIdle /\ OInit /\ XIdle

MemSpec == MemInit /\ [][MNext]_vars

\* the calls made on the core store
AddCalls == { <<"u1", "t0", NoTTL>>, <<"u1", "t0", 1>>, <<"u2", "t1", NoTTL>> }
\* thread 1 reads, deletes and prunes, the other threads add; all update
Writers == Threads \ Readers
UpdateCalls(t) ==
  IF t \in Readers
    THEN { [NoFields EXCEPT !.text = "t1", !.metadata = << <<"k", "v">> >>],
           [NoFields EXCEPT !.ttl = 1] }
    ELSE { [NoFields EXCEPT !.importance = 1, !.tags = <<"g1">>] }

CoreInit == MInit /\ impl = "core" /\ RIdle /\ OInit /\ XIdle

CoreNext ==
  \/ (\E t \in Writers, c \in AddCalls : AddBegin(t, c[1], c[2], c[3]))
     /\ UNCHANGED <<rvars, ovars, xvars>>
  \/ (\E t \in Threads : AddLock(t)) /\ UNCHANGED <<rvars, ovars, xvars>>
  \/ (\E t \in Threads : AddPurge(t)) /\ UNCHANGED <<rvars, ovars, xvars>>
  \/ (\E t \in Threads : AddInsert(t)) /\ UNCHANGED <<rvars, ovars, xvars>>
  \/ (\E t \in Readers, b \in BOOLEAN : GetBegin(t, "u1", 0, b))
     /\ UNCHANGED <<rvars, ovars, xvars>>
  \/ (\E t \in Readers : SearchBegin(t, "u1", "t0", 0)) /\ UNCHANGED <<rvars, ovars, xvars>>
  \/ (\E t \in Readers, q \in {"", "t0"} : RelevantBegin(t, "u1", q, 1))
     /\ UNCHANGED <<rvars, ovars, xvars>>
  \/ (\E t \in Threads : GetPurge(t)) /\ UNCHANGED <<rvars, ovars, xvars>>
  \/ (\E t \in Threads, tie \in {"rowid", "reverse"} : GetSelect(t, tie))
     /\ UNCHANGED <<rvars, ovars, xvars>>
  \/ (\E t \in Threads : RelevantRank(t)) /\ UNCHANGED <<rvars, ovars, xvars>>
  \/ (\E t \in Threads : GetReturn(t)) /\ UNCHANGED <<rvars, ovars, xvars>>
  \/ (\E t \in Threads : \E f \in UpdateCalls(t) : UpdateBegin(t, 1, f))
     /\ UNCHANGED <<rvars, ovars, xvars>>
  \/ (\E t \in Threads : UpdateWrite(t)) /\ UNCHANGED <<rvars, ovars, xvars>>
  \/ (\E t \in Readers, id \in 1..MaxAdds : SoftDelete(t, id)) /\ UNCHANGED <<rvars, ovars, xvars>>
  \/ (\E t \in Readers, id \in 1..MaxAdds : Delete(t, id)) /\ UNCHANGED <<rvars, ovars, xvars>>
  \/ (\E t \in Readers : PruneExpired(t)) /\ UNCHANGED <<rvars, ovars, xvars>>
  \/ (\E t \in Readers : PruneImportance(t)) /\ UNCHANGED <<rvars, ovars, xvars>>
  \/ Tick /\ UNCHANGED <<rvars, ovars, xvars>>

CoreSpec == CoreInit /\ [][CoreNext]_vars

OrchInit == OInit /\ RIdle /\ MIdle /\ XIdle

OrchNext ==
  \/ (\E m \in Modes, p \in Priorities : OrchBegin(m, p))
     /\ UNCHANGED <<rvars, mvars, xvars>>
  \/ (\E e \in StageErrors : OrchTryRaise(e)) /\ UNCHANGED <<rvars, mvars, xvars>>
  \/ (\E c \in CandidateLists : OrchRoute(c)) /\ UNCHANGED <<rvars, mvars, xvars>>
  \/ (\E b \in 1..2 : OrchJudge(b)) /\ UNCHANGED <<rvars, mvars, xvars>>
  \/ OrchSave /\ UNCHANGED <<rvars, mvars, xvars>>
  \/ OrchQuality /\ UNCHANGED <<rvars, mvars, xvars>>
  \/ OrchLog /\ UNCHANGED <<rvars, mvars, xvars>>
  \/ (\E e \in StageErrors : OrchLateRaise(e)) /\ UNCHANGED <<rvars, mvars, xvars>>
  \/ OrchReturn /\ UNCHANGED <<rvars, mvars, xvars>>

OrchSpec == OrchInit /\ [][OrchNext]_vars

ScoreInit == SInit /\ RIdle /\ MIdle /\ OInit /\ BIdle /\ IIdle /\ YIdle

ScoreNext ==
  \/ ScoreGenerateLocal /\ UNCHANGED <<rvars, mvars, ovars, bvars, ivars, yvars>>
  \/ (\E out \in {"ok", "http5xx"}, l \in Latencies : ScoreGenerateHttp(out, l))
     /\ UNCHANGED <<rvars, mvars, ovars, bvars, ivars, yvars>>
  \/ ScoreRoute /\ UNCHANGED <<rvars, mvars, ovars, bvars, ivars, yvars>>

ScoreSpec == ScoreInit /\ [][ScoreNext]_vars

\* the core store with side blobs: adds with and without a blob and a ttl,
\* hard deletes and orphan cleanups on one shard, adds with a blob on another
BlobInit == MInit /\ impl = "core" /\ BIdle /\ RIdle /\ OInit /\ SIdle /\ IIdle /\ YIdle

BlobNext ==
  \/ (\E t \in Threads, ttl \in {NoTTL, 1}, b \in BOOLEAN :
        AddFull(t, "u1", "t0", ttl, <<>>, b))
     /\ UNCHANGED <<rvars, ovars, svars, ivars, yvars, other_rows>>
  \/ (\E t \in Threads : AddLock(t)) /\ UNCHANGED <<rvars, ovars, xvars>>
  \/ (\E t \in Threads : AddPurge(t)) /\ UNCHANGED <<rvars, ovars, xvars>>
  \/ (\E t \in Threads : AddInsert(t)) /\ UNCHANGED <<rvars, ovars, xvars>>
  \/ (\E t \in Threads, id \in 1..MaxAdds : Delete(t, id)) /\ UNCHANGED <<rvars, ovars, xvars>>
  \/ AddElsewhere("u2", "t1") /\ UNCHANGED <<rvars, ovars, svars, ivars, yvars>>
  \/ (\E t \in Threads : CleanupSelect(t)) /\ UNCHANGED <<rvars, ovars, svars, ivars, yvars>>
  \/ (\E t \in Threads : CleanupUnlink(t)) /\ UNCHANGED <<rvars, ovars, svars, ivars, yvars>>
  \/ Tick /\ UNCHANGED <<rvars, ovars, xvars>>

BlobSpec == BlobInit /\ [][BlobNext]_vars

\* get_relevant of the core store, with and without a query and with the
\* default and an explicit limit, while the same text is added again
RelevantInit == MInit /\ impl = "core" /\ RIdle /\ OInit /\ XIdle

RelevantNext ==
  \/ (\E t \in Writers, x \in Texts : AddBegin(t, "u1", x, NoTTL))
     /\ UNCHANGED <<rvars, ovars, xvars>>
  \/ (\E t \in Threads : AddLock(t)) /\ UNCHANGED <<rvars, ovars, xvars>>
  \/ (\E t \in Threads : AddPurge(t)) /\ UNCHANGED <<rvars, ovars, xvars>>
  \/ (\E t \in Threads : AddInsert(t)) /\ UNCHANGED <<rvars, ovars, xvars>>
  \/ (\E t \in Readers, q \in {"", "t0"}, l \in {0, 2} : RelevantBegin(t, "u1", q, l))
     /\ UNCHANGED <<rvars, ovars, xvars>>
  \/ (\E t \in Threads : GetPurge(t)) /\ UNCHANGED <<rvars, ovars, xvars>>
  \/ (\E t \in Threads, tie \in {"rowid", "reverse"} : GetSelect(t, tie))
     /\ UNCHANGED <<rvars, ovars, xvars>>
  \/ (\E t \in Threads : RelevantRank(t)) /\ UNCHANGED <<rvars, ovars, xvars>>
  \/ (\E t \in Threads : GetReturn(t)) /\ UNCHANGED <<rvars, ovars, xvars>>
  \/ Tick /\ UNCHANGED <<rvars, ovars, xvars>>

RelevantSpec == RelevantInit /\ [][RelevantNext]_vars

\* both stores under writers and readers of three owners: no agent id (""),
\* the agent named "global" and the agent u1
IsolationAgents == {"", "global", "u1"}

IsolationInit == MInit /\ RIdle /\ OInit /\ XIdle

IsolationNext ==
  \/ (\E t \in Writers, a \in IsolationAgents, ttl \in {NoTTL, 1} : AddBegin(t, a, "t0", ttl))
     /\ UNCHANGED <<rvars, ovars, xvars>>
  \/ (\E t \in Threads : AddLock(t)) /\ UNCHANGED <<rvars, ovars, xvars>>
  \/ (\E t \in Threads : AddPurge(t)) /\ UNCHANGED <<rvars, ovars, xvars>>
  \/ (\E t \in Threads : AddInsert(t)) /\ UNCHANGED <<rvars, ovars, xvars>>
  \/ (\E t \in Readers, a \in IsolationAgents : GetBegin(t, a, 0, FALSE))
     /\ UNCHANGED <<rvars, ovars, xvars>>
  \/ (\E t \in Readers, a \in IsolationAgents : SearchBegin(t, a, "t0", 0))
     /\ UNCHANGED <<rvars, ovars, xvars>>
  \/ (\E t \in Threads : GetLock(t)) /\ UNCHANGED <<rvars, ovars, xvars>>
  \/ (\E t \in Threads : GetPurge(t)) /\ UNCHANGED <<rvars, ovars, xvars>>
  \/ (\E t \in Threads, tie \in {"rowid", "reverse"} : GetSelect(t, tie))
     /\ UNCHANGED <<rvars, ovars, xvars>>
  \/ (\E t \in Threads : GetReturn(t)) /\ UNCHANGED <<rvars, ovars, xvars>>
  \/ Tick /\ UNCHANGED <<rvars, ovars, xvars>>

IsolationSpec == IsolationInit /\ [][IsolationNext]_vars

\* route_prompt of the core router on its own
\* the core store searched with a tag filter, in both query modes: tagged
\* and untagged adds of one text by thread 2, searches by thread 1
SearchTagLists == {<<"g1">>, <<"fact">>}

TagInit ==
  /\ MInit /\ impl = "core" /\ query_strict \in BOOLEAN
  /\ BIdle /\ RIdle /\ OInit /\ SIdle /\ IIdle /\ PIdle /\ BanditIdle /\ AInit
  /\ LIdle /\ VInit

TagNext ==
  \/ (\E t \in Writers, tags \in TagLists : AddFull(t, "u1", "t0", NoTTL, tags, FALSE))
     /\ UNCHANGED <<rvars, ovars, svars, ivars, yvars, other_rows>>
  \/ (\E t \in Threads : AddLock(t)) /\ UNCHANGED <<rvars, ovars, xvars>>
  \/ (\E t \in Threads : AddPurge(t)) /\ UNCHANGED <<rvars, ovars, xvars>>
  \/ (\E t \in Threads : AddInsert(t)) /\ UNCHANGED <<rvars, ovars, xvars>>
  \/ (\E t \in Readers, tags \in SearchTagLists : SearchTags(t, "u1", "t0", 0, tags))
     /\ UNCHANGED <<rvars, ovars, xvars>>
  \/ (\E t \in Threads : GetPurge(t)) /\ UNCHANGED <<rvars, ovars, xvars>>
  \/ (\E t \in Threads, tie \in {"rowid", "reverse"} : GetSelect(t, tie))
     /\ UNCHANGED <<rvars, ovars, xvars>>
  \/ (\E t \in Threads : GetReturn(t)) /\ UNCHANGED <<rvars, ovars, xvars>>

TagSpec == TagInit /\ [][TagNext]_vars

\* one adapter, local echo or OpenAI, over up to MaxSamples generate calls
LatencyInit ==
  /\ LInit /\ TIdle /\ VInit
  /\ PIdle /\ BanditIdle /\ AInit /\ RIdle /\ MIdle /\ OInit /\ SIdle /\ BIdle /\ IIdle

LatencyNext ==
  \/ SampleLocal
     /\ UNCHANGED <<rvars, mvars, ovars, svars, bvars, ivars, pvars, bandvars, avars, tvars, vvars>>
  \/ SampleMissingKey
     /\ UNCHANGED <<rvars, mvars, ovars, svars, bvars, ivars, pvars, bandvars, avars, tvars, vvars>>
  \/ (\E out \in {"ok", "http5xx"}, l \in HttpLatencies : SampleHttp(out, l))
     /\ UNCHANGED <<rvars, mvars, ovars, svars, bvars, ivars, pvars, bandvars, avars, tvars, vvars>>

LatencySpec == LatencyInit /\ [][LatencyNext]_vars

\* the in-memory backend of two agents under add, prune and similar
BackendInit ==
  /\ VInit /\ TIdle /\ LIdle
  /\ PIdle /\ BanditIdle /\ AInit /\ RIdle /\ MIdle /\ OInit /\ SIdle /\ BIdle /\ IIdle

BackendNext ==
  \/ (\E a \in VAgents, text \in VTexts, imp \in {1, 9} : BackendAdd(a, text, imp))
     /\ UNCHANGED <<rvars, mvars, ovars, svars, bvars, ivars, pvars, bandvars, avars, tvars, lvars>>
  \/ (\E a \in VAgents : BackendPrune(a, 5))
     /\ UNCHANGED <<rvars, mvars, ovars, svars, bvars, ivars, pvars, bandvars, avars, tvars, lvars>>
  \/ (\E a \in VAgents, text \in VTexts : BackendSimilar(a, text, 1))
     /\ UNCHANGED <<rvars, mvars, ovars, svars, bvars, ivars, pvars, bandvars, avars, tvars, lvars>>

BackendSpec == BackendInit /\ [][BackendNext]_vars

PromptInit == PIdle /\ BanditIdle /\ AInit /\ RIdle /\ MIdle /\ OInit /\ SIdle /\ BIdle /\ IIdle
  /\ WIdle

PromptNext ==
  \/ (\E names \in ProviderLists, parallel \in BOOLEAN : PromptBegin(names, parallel))
     /\ UNCHANGED <<rvars, mvars, ovars, svars, bvars, ivars, bandvars, avars, wvars>>
  \/ (\E i \in 1..Len(ptasks) : CallStart(i))
     /\ UNCHANGED <<rvars, mvars, ovars, svars, bvars, ivars, bandvars, avars, wvars>>
  \/ (\E i \in 1..Len(ptasks), st \in CallEnds : CallEnd(i, st))
     /\ UNCHANGED <<rvars, mvars, ovars, svars, bvars, ivars, bandvars, avars, wvars>>
  \/ PromptReturn /\ UNCHANGED <<rvars, mvars, ovars, svars, bvars, ivars, bandvars, avars, wvars>>

PromptSpec == PromptInit /\ [][PromptNext]_vars

\* one BanditRouter serving execute calls one after another
BanditInit == BInit /\ PIdle /\ AInit /\ RIdle /\ MIdle /\ OInit /\ SIdle /\ BIdle /\ IIdle
  /\ WIdle

BanditNext ==
  \/ (\E works \in SUBSET {bmodels[i] : i \in 1..Len(bmodels)},
         fallback \in {"none", "fails", "works"} : ExecuteBegin(works, fallback))
     /\ UNCHANGED <<rvars, mvars, ovars, svars, bvars, ivars, pvars, avars, wvars>>
  \/ ExecuteCall /\ UNCHANGED <<rvars, mvars, ovars, svars, bvars, ivars, pvars, avars, wvars>>
  \/ ExecuteFallback /\ UNCHANGED <<rvars, mvars, ovars, svars, bvars, ivars, pvars, avars, wvars>>
  \/ ExecuteRaise /\ UNCHANGED <<rvars, mvars, ovars, svars, bvars, ivars, pvars, avars, wvars>>

BanditSpec == BanditInit /\ [][BanditNext]_vars

\* one agent under a sequence of record calls
AgentInit == AInit /\ PIdle /\ BanditIdle /\ RIdle /\ MIdle /\ OInit /\ SIdle /\ BIdle /\ IIdle
  /\ WIdle

AgentNext ==
  \/ RegistryRecord(TRUE)
     /\ UNCHANGED <<rvars, mvars, ovars, svars, bvars, ivars, pvars, bandvars, wvars>>
  \/ RegistryRecord(FALSE)
     /\ UNCHANGED <<rvars, mvars, ovars, svars, bvars, ivars, pvars, bandvars, wvars>>

AgentSpec == AgentInit /\ [][AgentNext]_vars

\* the brain store under its injector: writes with and without tags for
\* several agents, injections with and without a tag filter
InjectWrites == { <<"u1", FactText, <<"fact">>>>, <<"u1", Blue, <<>>>>, <<"u2", Blue, <<"fact">>>> }
InjectPrompts == {<<>>, Blue, WhyBlue, WhyBlueQ}
InjectTags == {<<>>, <<"fact">>}

InjectInit == MInit /\ impl = "brain" /\ RIdle /\ OInit /\ SIdle /\ BIdle /\ IIdle /\ YIdle

InjectNext ==
  \/ (\E t \in Writers, w \in InjectWrites : AddFull(t, w[1], w[2], NoTTL, w[3], FALSE))
     /\ UNCHANGED <<rvars, ovars, svars, ivars, yvars, other_rows>>
  \/ (\E t \in Threads : AddLock(t)) /\ UNCHANGED <<rvars, ovars, xvars>>
  \/ (\E t \in Threads : AddPurge(t)) /\ UNCHANGED <<rvars, ovars, xvars>>
  \/ (\E t \in Threads : AddInsert(t)) /\ UNCHANGED <<rvars, ovars, xvars>>
  \/ (\E t \in Readers, p \in InjectPrompts, g \in InjectTags,
         tie \in {"rowid", "reverse"} : InjectContext(t, "u1", p, g, tie))
     /\ UNCHANGED <<rvars, ovars, svars, bvars, yvars>>
  \/ Tick /\ UNCHANGED <<rvars, ovars, xvars>>

InjectSpec == InjectInit /\ [][InjectNext]_vars

(***************************************************************************)
(* Properties of the router, checked under Spec.                           *)
(***************************************************************************)
\* a route call has returned and `routed` is its result
Returned == rpc = "idle" /\ nroutes > 0

\* the routed responses that carry the name of adapter i
ResponsesOf(i) == {k \in 1..Len(routed) : routed[k].model = fetchers[i]}

\* the position of a name in the registry's descriptor list
MetaPos(name) == CHOOSE p \in 1..Len(metas) : metas[p].name = name

\* C1: whatever the registry, the filters of the request and the behaviour
\* of the adapters, the list a route call returns holds at least one response.
C1_RouteNonEmpty == Returned => Len(routed) >= 1

\* a route has returned whose filters no descriptor of the registry passed
C1_Witness ==
  /\ Returned
  /\ req.require_json
  /\ \A p \in 1..Len(metas) : metas[p].name # "local-echo"
  /\ Len(routed) = 1
  /\ routed[1].model = "local-echo"

\* C2: a generate call that raises does not make route raise: in parallel and
\* in sequential mode the raising adapter contributes one synthesized response
\* with empty content, latency 0 and the exception's description as error,
\* and the list holds exactly one response per chosen adapter.
C2_RaisedSynthesized ==
  Returned =>
    /\ Len(routed) = Len(fetchers)
    /\ \A i \in 1..Len(fetchers) :
         /\ Cardinality(ResponsesOf(i)) = 1
         /\ tasks[i].st = "raised" =>
              \A k \in ResponsesOf(i) :
                /\ routed[k].content = <<>>
                /\ routed[k].latency = 0
                /\ routed[k].error = tasks[i].res.error

\* a sequential route has returned in which the first adapter raised with a
\* message and the second one was still called
C2_Witness ==
  /\ Returned
  /\ ~req.parallel
  /\ Len(tasks) = 2
  /\ tasks[1].st = "raised" /\ tasks[1].res.error = "fail"
  /\ tasks[2].st = "done"

\* C3: the returned list is ordered by non-increasing final score, and
\* responses of equal score keep the order of the registry's descriptor list.
C3_Ordered ==
  Returned =>
    \A i, j \in 1..Len(routed) :
      i < j =>
        /\ RatLeq(routed[j].score, routed[i].score)
        /\ RatEq(routed[i].score, routed[j].score) =>
             MetaPos(routed[i].model) < MetaPos(routed[j].model)

\* a returned list holding two responses of equal score
C3_Witness ==
  /\ Returned
  /\ Len(routed) = 2
  /\ RatEq(routed[1].score, routed[2].score)

\* the generate call of task i returns in this step
Returns(i) ==
  /\ i \in 1..Len(tasks')
  /\ tasks[i].st = "pending"
  /\ tasks'[i].st = "done"

C5_BoundedRetries ==
  \A i \in 1..Len(tasks) :
    cache[fetchers[i]].kind \in Retrying =>
      /\ tasks[i].attempts <= MaxAttempts
      /\ (tasks[i].st = "pending" /\ tasks[i].attempts >= 1) =>
           tasks[i].last \in Failures
      /\ (tasks[i].st = "done" /\ tasks[i].attempts >= 1) =>
           \/ tasks[i].last \in Replies
           \/ /\ tasks[i].last \in Failures
              /\ tasks[i].attempts = MaxAttempts
              /\ tasks[i].res.error = ErrText(tasks[i].last)

\* a call has ended after three failed attempts, the last one a 503
C5_Witness ==
  \E i \in 1..Len(tasks) :
    /\ cache[fetchers[i]].kind \in Retrying
    /\ tasks[i].st = "done"
    /\ tasks[i].attempts = MaxAttempts
    /\ tasks[i].last = "http5xx"
    /\ tasks[i].res.error = ErrText("http5xx")

\* C6: generate of the openai-compatible, openrouter, huggingface, ollama and
\* local adapters returns a response record whatever the transport does and
\* never raises; a failure shows only in the error field of the record.
C6_GenerateReturns ==
  \A i \in 1..Len(tasks) :
    cache[fetchers[i]].kind # "base" =>
      /\ tasks[i].st # "raised"
      /\ tasks[i].st = "done" =>
           /\ tasks[i].res.model = fetchers[i]
           /\ tasks[i].last \in Failures \cup {"malformed"} =>
                /\ tasks[i].res.error # NONE
                /\ tasks[i].res.error = ErrText(tasks[i].last)
           /\ tasks[i].last \in {"ok", "ok_empty"} => tasks[i].res.error = NONE

\* an ollama call has returned a record for a reply whose body is no JSON
C6_Witness ==
  \E i \in 1..Len(tasks) :
    /\ cache[fetchers[i]].kind = "ollama"
    /\ tasks[i].st = "done"
    /\ tasks[i].last = "malformed"
    /\ Truthy(tasks[i].res.error)

\* the arguments of choose
Filters ==
  [limit : 0..2, task : {"", "code", "chat"}, require_json : BOOLEAN,
   require_streaming : BOOLEAN, required_roles : {{}, {"user"}, {"system"}}]

\* what choose would return now for the arguments fl
ChooseNow(fl) ==
  Choose(metas, cache, fl.limit, fl.task, fl.require_json,
         fl.require_streaming, fl.required_roles)

\* the adapter has reached the auto-disable threshold of its descriptor
Disabled(f) ==
  /\ f.meta.auto_disable_threshold_failures # -1
  /\ f.failure_count >= f.meta.auto_disable_threshold_failures

\* C7: choose never returns an adapter whose descriptor sets
\* auto_disable_threshold and whose failure_count has reached it, and an
\* adapter's failure_count never decreases.
C7_DisabledNeverChosen ==
  /\ [](\A fl \in Filters :
          LET r == ChooseNow(fl)
          IN \A k \in 1..Len(r.selected) : ~Disabled(r.cache[r.selected[k]]))
  /\ [][\A n \in DOMAIN cache :
          cache'[n].failure_count >= cache[n].failure_count]_rvars

\* the descriptor passes every filter of choose for the arguments fl
DescriptorPasses(meta, fl) ==
  /\ ~(fl.task # "" /\ fl.task \in meta.forbidden_tasks)
  /\ PassesFilters(meta, FetcherFor(cache, meta)[meta.name], fl.require_json,
                   fl.require_streaming, fl.required_roles)

RowsOf(id) == {k \in 1..Len(rows) : rows[k].id = id}

\* entry id is in the table, not soft-deleted and not past its expiry
Live(id) ==
  \E k \in RowsOf(id) :
    /\ ~rows[k].deleted
    /\ ~(rows[k].expires_at # NoExpiry /\ rows[k].expires_at < clock)

\* the visible entries of the agent that are newer than entry id
Newer(id, agent) ==
  {k \in 1..Len(rows) :
     /\ rows[k].agent = agent
     /\ ~rows[k].deleted
     /\ \E j \in RowsOf(id) : rows[k].created_at > rows[j].created_at}

\* the ids in a list of rows
Ids(result) == {result[k].id : k \in 1..Len(result)}

\* C9: a get(agent) that starts after an add for that agent has returned
\* includes the added entry, provided the entry is neither deleted nor
\* expired and fewer than `limit` newer entries exist; other threads may add
\* to the shard at the same time.
C9_ReadYourWrites ==
  [][\A t \in Threads :
       (th[t].pc = "get_select" /\ th'[t].pc = "get_done") =>
         \A w \in returned :
           (/\ w.id \in th[t].before
            /\ w.agent = th[t].agent
            /\ Live(w.id)
            /\ Cardinality(Newer(w.id, w.agent)) < th[t].limit)
           => w.id \in Ids(th'[t].result)]_mvars

\* C10: an entry written with ttl = 0 is in no get on its agent that starts
\* after the write has returned.
C10_ZeroTtlAbsent ==
  \A t \in Threads :
    th[t].pc = "get_done" =>
      \A w \in returned :
        (w.ttl = 0 /\ w.id \in th[t].before) => w.id \notin Ids(th[t].result)

(***************************************************************************)
(* Further properties of the adapters and the router, checked under Spec.  *)
(***************************************************************************)
\* C16: an openai-compatible adapter that has its API key and a
\* failure_count of 0, and whose three attempts of one generate call all get
\* HTTP 503, returns a response with an error and empty content, is then
\* unhealthy and has a failure_count of 3.
C16_ExhaustionCountsThree ==
  [][\A i \in 1..Len(tasks) :
       (/\ Returns(i)
        /\ cache[fetchers[i]].kind = "openai"
        /\ HasCredentials(cache[fetchers[i]])
        /\ cache[fetchers[i]].failure_count = 0
        /\ tasks'[i].attempts = MaxAttempts
        /\ tasks'[i].last = "http5xx"
        /\ tasks'[i].same)
       => /\ tasks'[i].res.error # NONE
          /\ tasks'[i].res.content = <<>>
          /\ ~cache'[fetchers[i]].health_ok
          /\ cache'[fetchers[i]].failure_count = 3]_rvars

\* C16 as the code has it: the same call leaves a failure_count of 1, since
\* _record runs once per generate call, not once per attempt.
C16_ExhaustionCountsOnce ==
  [][\A i \in 1..Len(tasks) :
       (/\ Returns(i)
        /\ cache[fetchers[i]].kind = "openai"
        /\ HasCredentials(cache[fetchers[i]])
        /\ cache[fetchers[i]].failure_count = 0
        /\ tasks'[i].attempts = MaxAttempts
        /\ tasks'[i].last = "http5xx"
        /\ tasks'[i].same)
       => /\ tasks'[i].res.error # NONE
          /\ tasks'[i].res.content = <<>>
          /\ ~cache'[fetchers[i]].health_ok
          /\ cache'[fetchers[i]].failure_count = 1]_rvars

\* an openai-compatible adapter that had never failed has ended a call after
\* three 503 replies
C16_Witness ==
  \E i \in 1..Len(tasks) :
    /\ cache[fetchers[i]].kind = "openai"
    /\ tasks[i].st = "done"
    /\ tasks[i].attempts = MaxAttempts
    /\ tasks[i].last = "http5xx"
    /\ tasks[i].same
    /\ tasks[i].res.failure_count = 1
    /\ ~tasks[i].res.health_ok

\* an attempt of task i ends in this step with a failure that is not to be
\* retried: HTTP 4xx, or a 2xx reply whose body is malformed
NonRetryable(i) ==
  /\ i \in 1..Len(tasks')
  /\ cache[fetchers[i]].kind \in {"openai", "openrouter"}
  /\ tasks[i].st = "pending"
  /\ tasks'[i].attempts = tasks[i].attempts + 1
  /\ tasks'[i].last \in {"http4xx", "malformed"}

\* C17: an HTTP 4xx or a malformed body ends generate of the
\* openai-compatible and openrouter adapters with that attempt: no further
\* attempt follows it.
C17_NonRetryableEnds ==
  [][\A i \in 1..Len(tasks) : NonRetryable(i) => tasks'[i].st = "done"]_rvars

\* generate of adapter i has returned and the adapter lacks its credential
ReturnedMissing(i) ==
  /\ cache[fetchers[i]].kind \in Retrying
  /\ ~HasCredentials(cache[fetchers[i]])
  /\ tasks[i].st = "done"

\* C18: when the credential an adapter needs is absent, generate returns
\* without any HTTP attempt, with error "missing_credentials" and the
\* content prompt + " - <provider>".
C18_MissingCredentials ==
  \A i \in 1..Len(tasks) :
    ReturnedMissing(i) =>
      /\ tasks[i].attempts = 0
      /\ tasks[i].res.error = "missing_credentials"
      /\ tasks[i].res.content = Prompt \o Suffix(cache[fetchers[i]].kind)

\* C18 as the code has it: the error is "missing_api_key" for the
\* openai-compatible and openrouter adapters and "missing_api_token" for
\* the huggingface adapter.
C18_MissingKeyOrToken ==
  \A i \in 1..Len(tasks) :
    ReturnedMissing(i) =>
      /\ tasks[i].attempts = 0
      /\ tasks[i].last = NONE
      /\ tasks[i].res.error =
           (IF cache[fetchers[i]].kind = "huggingface"
            THEN "missing_api_token" ELSE "missing_api_key")
      /\ tasks[i].res.content = Prompt \o Suffix(cache[fetchers[i]].kind)

\* a huggingface adapter without its token has returned
C18_Witness ==
  \E i \in 1..Len(tasks) :
    /\ ReturnedMissing(i)
    /\ cache[fetchers[i]].kind = "huggingface"
    /\ tasks[i].res.error = "missing_api_token"
    /\ tasks[i].res.content = Prompt \o S_huggingface

\* the generate call of task i failed: it raised, or its response carries
\* an error
GenerationFailed(i) ==
  \/ tasks[i].st = "raised"
  \/ tasks[i].st = "done" /\ tasks[i].res.error # NONE

\* C19: when the generation of at least one chosen adapter fails during a
\* route call, the ranked list the call returns holds a response of a
\* local-echo adapter.
C19_EchoAfterFailure ==
  (Returned /\ \E i \in 1..Len(tasks) : GenerationFailed(i)) =>
    \E k \in 1..Len(routed) : cache[routed[k].model].kind = "local"

\* the deadline of the caller expires in this step, during a route
DeadlineExpires ==
  /\ rpc = "gather"
  /\ \E i \in 1..Len(tasks) : tasks[i].st = "pending" /\ tasks'[i].st = "cancelled"

\* C20: when the deadline of the caller expires during a route, every
\* dispatch in flight is cancelled and shows in the result as a response
\* with error "cancelled"; the route does not raise and returns one response
\* for each chosen adapter.
C20_DeadlineCancels ==
  [][DeadlineExpires =>
       /\ rpc' = "idle"
       /\ Len(routed') = Len(fetchers)
       /\ \A i \in 1..Len(tasks) :
            tasks[i].st = "pending" /\ tasks'[i].st = "cancelled" =>
              \E k \in 1..Len(routed') :
                routed'[k].model = fetchers[i] /\ routed'[k].error = "cancelled"]_rvars

(***************************************************************************)
(* Properties of the core memory store, checked under CoreSpec.            *)
(***************************************************************************)
\* thread t runs the SELECT of a get or a search in this step
Selects(t) == th[t].pc = "get_select" /\ th'[t].pc \in {"get_done", "rank"}

\* the rows of the table that are soft-deleted
SoftDeleted == {k \in 1..Len(rows) : rows[k].deleted}

\* C11: once an entry is soft-deleted, a get or a search with default
\* arguments never returns it, whatever adds and updates came in between,
\* while get(include_deleted=True) returns it as long as its row is in the
\* table (not hard-deleted, not purged as expired).
C11_SoftDeleteHides ==
  [][\A t \in Threads :
       Selects(t) =>
         IF th[t].include_deleted
           THEN \A k \in SoftDeleted :
                  rows[k].agent = th[t].agent /\ Len(rows) <= th[t].limit
                    => rows[k].id \in Ids(th'[t].result)
           ELSE \A k \in SoftDeleted : rows[k].id \notin Ids(th'[t].result)]_mvars

\* a get(include_deleted=True) has read a soft-deleted entry that an update
\* changed
C11_Witness ==
  \E t \in Threads :
    /\ th[t].pc = "get_done"
    /\ th[t].include_deleted
    /\ \E i \in 1..Len(th[t].result) :
         th[t].result[i].deleted /\ th[t].result[i].text = "t1"

\* an entry whose expires_at is earlier than the time `now`
ExpiredAt(r, now) == r.expires_at # NoExpiry /\ r.expires_at < now

\* the list a read with default arguments hands back holds no entry that
\* had expired when the read started and no soft-deleted entry
ReadsFresh ==
  \A t \in Threads :
    th[t].pc = "get_done" /\ ~th[t].include_deleted =>
      \A i \in 1..Len(th[t].result) :
        /\ ~th[t].result[i].deleted
        /\ ~ExpiredAt(th[t].result[i], th[t].start)

\* a get with a limit no smaller than the table returns every entry of its
\* agent that is in the table, not soft-deleted and not expired
GetsComplete ==
  [][\A t \in Threads :
       Selects(t) /\ th[t].op = "get" /\ Len(rows) <= th[t].limit =>
         \A k \in 1..Len(rows) :
           /\ rows[k].agent = th[t].agent
           /\ ~rows[k].deleted
           /\ ~ExpiredAt(rows[k], clock)
           => rows[k].id \in Ids(th'[t].result)]_mvars

\* C12: whatever adds, updates, soft and hard deletes and prunes ran, a read
\* with default arguments (get, search, get_relevant) returns no soft-deleted
\* entry and no entry whose expires_at is earlier than the time the read
\* started, and a get with a large enough limit returns every entry in the
\* table that is neither expired nor soft-deleted.
C12_ReadsObserveLive == []ReadsFresh /\ GetsComplete

\* thread t runs the UPDATE of an update call in this step
Writes(t) == th[t].pc = "upd_write" /\ th'[t].pc = "idle"

\* C13: update(id, fields) sets exactly the fields it was passed and leaves
\* every other field of the entry as it finds it, also when another update
\* of the same entry runs at the same time: with disjoint fields the entry
\* ends up with both changes.
C13_UpdateExactFields ==
  [][\A t \in Threads :
       Writes(t) =>
         \A k \in 1..Len(rows) :
           rows[k].id = th[t].id =>
             LET f == th[t].fields
                 old == rows[k]
                 new == rows'[k]
             IN /\ new.text = IF f.text # NONE THEN f.text ELSE old.text
                /\ new.tags = IF f.tags # NoList THEN DumpTags(f.tags)
                              ELSE old.tags
                /\ new.metadata = IF f.metadata # NoList
                                    THEN DumpMeta(f.metadata)
                                  ELSE old.metadata
                /\ new.importance = IF f.importance # NoImportance
                                      THEN f.importance ELSE old.importance
                /\ new.expires_at = IF f.ttl # NoTTL THEN clock + f.ttl
                                    ELSE old.expires_at]_mvars

(***************************************************************************)
(* Properties of the orchestration pipeline, checked under OrchSpec.       *)
(***************************************************************************)
\* how many interaction memories, quality records a run has written
MemoriesOf(run) == Cardinality({k \in 1..Len(memories) : memories[k] = run})
QualitiesOf(run) == Cardinality({k \in 1..Len(qualities) : qualities[k] = run})

\* C14: a run in mode dry-run writes no interaction memory, and a run in any
\* other mode that returns has written exactly one.
C14_OneMemoryUnlessDryRun ==
  /\ oruns > 0 /\ omode = "dry-run" => MemoriesOf(oruns) = 0
  /\ opc = "returned" /\ omode # "dry-run" => MemoriesOf(oruns) = 1

\* a dry-run has returned after an earlier run in another mode wrote its
\* memory
C14_Witness ==
  /\ opc = "returned"
  /\ omode = "dry-run"
  /\ oruns = 2
  /\ memories = <<1>>

\* C15: when route_prompt or judge_outputs raises, the pipeline ends with
\* that exception and the run has written no interaction memory and no
\* quality record.
C15_NoWriteOnEarlyFailure ==
  ofailed \in {"route", "judge"} =>
    /\ opc = "raised"
    /\ oraised \in StageErrors
    /\ MemoriesOf(oruns) = 0
    /\ QualitiesOf(oruns) = 0

\* judging has raised in a run that follows a run which wrote both records
C15_Witness ==
  /\ ofailed = "judge"
  /\ opc = "raised"
  /\ memories = <<1>>
  /\ qualities = <<1>>
  /\ "orchestration_error" \in {events[k] : k \in 1..Len(events)}

(***************************************************************************)
(* Properties of the scoring, checked under ScoreSpec.                     *)
(***************************************************************************)
\* C21: every response Router.route returns has a score within [0, 1],
\* whatever the bias configuration of its descriptor (prefer_for, avoid_for,
\* strengths, weaknesses, cost, speed), the task and the health of its adapter
C21_ScoreInUnit ==
  spc = "routed" =>
    /\ RatLeq(Rat(0, 1), srouted.score)
    /\ RatLeq(srouted.score, Rat(1, 1))

\* the score route would give the response had the adapter failed n times
ScoreWithFailures(n) ==
  Routed(sprompt, stask, <<sfetcher.name>>,
         (sfetcher.name :> [sfetcher EXCEPT !.failure_count = n]), sres).score

\* C22: with descriptor, task, health_ok and base score held fixed, a larger
\* failure_count never yields a larger final score
C22_BiasMonotone ==
  spc = "routed" =>
    LET n == sfetcher.failure_count
    IN /\ RatEq(ScoreWithFailures(n), srouted.score)
       /\ RatLeq(ScoreWithFailures(n + 1), srouted.score)
       /\ \A m \in (n + 1)..(MaxFailures + 2) :
            RatLeq(BiasMultiplier(sfetcher.meta, [sfetcher EXCEPT !.failure_count = m], stask),
                   BiasMultiplier(sfetcher.meta, sfetcher, stask))

\* a response was scored for an adapter whose failures have reached the
\* floor of the penalty, and fewer failures would have scored it higher
C22_Witness ==
  /\ spc = "routed"
  /\ sfetcher.failure_count >= 8
  /\ sfetcher.meta.prefer_for = {stask}
  /\ RatLess(srouted.score, ScoreWithFailures(7))

(***************************************************************************)
(* Properties of the side blobs, checked under BlobSpec.                   *)
(***************************************************************************)
\* the blobs some entry of some shard references
Referenced == BlobRefs(rows) \cup BlobRefs(other_rows)

\* the blobs written by an add that has not inserted its entry yet
BeingAdded ==
  {th[t].blob_ref : t \in {u \in Threads : /\ th[u].pc \in {"add_lock", "add_purge", "add_insert"}
                                          /\ th[u].blob_ref # NoBlobRef}}

\* C23: cleanup_orphan_blobs removes every side blob that no entry
\* references and never removes a blob that an entry references, be the
\* entry in another shard than the store it is called on or be its
\* add(blob=...) still running
C23_CleanupExact ==
  [][\A t \in Threads : CleanupUnlink(t) =>
       /\ \A b \in blobs : b \notin Referenced \cup BeingAdded => b \notin blobs'
       /\ \A b \in blobs : b \in Referenced \cup BeingAdded => b \in blobs']_vars

\* the entry with this id has a blob_ref
HasBlob(id) == \E k \in 1..Len(rows) : rows[k].id = id /\ rows[k].blob_ref # NoBlobRef

\* C24: after delete(id) of an entry that had a blob_ref, neither the entry
\* nor its blob side file exists any more
C24_DeleteRemovesBlob ==
  [][\A t \in Threads, id \in 1..MaxAdds : (HasBlob(id) /\ Delete(t, id)) =>
       /\ \A k \in 1..Len(rows') : rows'[k].id # id
       /\ \A k \in 1..Len(rows) : rows[k].id = id => rows[k].blob_ref \notin blobs']_vars

(***************************************************************************)
(* Properties of get_relevant, checked under RelevantSpec.                 *)
(***************************************************************************)
\* C25: get_relevant never returns two entries with the same
\* (text, tag tuple), whatever the store holds, the same text and tags added
\* several times included (of such duplicates only one, the most recent, is
\* returned)
C25_RelevantDeduplicated ==
  \A t \in Threads :
    (th[t].pc = "get_done" /\ th[t].relevant # 0) =>
      \A i, j \in 1..Len(th[t].result) :
        i # j => ~(/\ th[t].result[i].text = th[t].result[j].text
                   /\ th[t].result[i].tags = th[t].result[j].tags)

(***************************************************************************)
(* Properties of the injector, checked under InjectSpec.                   *)
(***************************************************************************)
\* C26: if the store holds no entry for the agent, inject_context(agent, p)
\* returns exactly p, without raising, for every prompt p and tag filter
C26_InjectorPassThrough ==
  (injected.called /\ injected.held = <<>>) =>
    /\ ~injected.raised
    /\ injected.out = injected.prompt

StartsWith(s, prefix) ==
  Len(s) >= Len(prefix) /\ SubSeq(s, 1, Len(prefix)) = prefix

\* the lines of a text
RECURSIVE LinesFrom(_, _, _)
LinesFrom(s, i, line) ==
  IF i > Len(s) THEN <<line>>
  ELSE IF s[i] = NL THEN <<line>> \o LinesFrom(s, i + 1, <<>>)
  ELSE LinesFrom(s, i + 1, Append(line, s[i]))

RECURSIVE BulletsFrom(_, _)
BulletsFrom(lines, i) ==
  IF i > Len(lines) \/ ~StartsWith(lines[i], S_bullet) THEN <<>>
  ELSE <<SubSeq(lines[i], Len(S_bullet) + 1, Len(lines[i]))>> \o BulletsFrom(lines, i + 1)

\* the bullets of an injected prompt: the "- " lines under "Context:"
Bullets(out) ==
  IF StartsWith(out, S_context \o <<NL>>) THEN BulletsFrom(LinesFrom(out, 1, <<>>), 2)
  ELSE <<>>

\* the store held "Fact: sky is blue" (tags ["fact"]) as the one entry of u1
\* and "Why blue?" was injected for u1
SkyScenario ==
  /\ injected.called
  /\ injected.agent = "u1"
  /\ injected.prompt = WhyBlueQ
  /\ Len(injected.held) = 1
  /\ injected.held[1].text = FactText
  /\ injected.held[1].tags = <<"fact">>

\* C27: after "Fact: sky is blue" (tags ["fact"]) was written for u1,
\* injecting "Why blue?" for u1 returns a string that begins with "Context:",
\* a newline, "- Fact: sky is blue", an empty line and "Prompt: Why blue?";
\* in general the bullets are the texts of the entries get_relevant
\* returned, in that order
C27_InjectedContext ==
  /\ SkyScenario =>
       /\ ~injected.raised
       /\ StartsWith(injected.out,
                     S_context \o <<NL>> \o S_bullet \o FactText \o <<NL, NL>>
                     \o S_prompt \o WhyBlueQ)
  /\ (injected.called /\ ~injected.raised) =>
       Bullets(injected.out) =
         [k \in 1..Len(injected.memories) |-> injected.memories[k].text]

\* C28: get(a) and search(a, q) return only entries whose agent_id is a, for
\* any interleaving of writes by other agents, in the per-agent files of the
\* brain store and in the single shard of the core store
C28_AgentIsolation ==
  \A t \in Threads :
    th[t].pc = "get_done" =>
      \A k \in 1..Len(th[t].result) : th[t].result[k].agent = th[t].agent

\* C29: a descriptor with a non-empty allowed_hosts whose adapter is
\* configured to call a host outside that set is skipped by choose, so an
\* adapter chosen for such a descriptor sends its requests only to a host in
\* allowed_hosts
C29_AllowedHosts ==
  \A i \in 1..Len(fetchers) : \A k \in 1..Len(metas) :
    (/\ metas[k].name = fetchers[i]
     /\ metas[k].allowed_hosts # {}
     /\ tasks[i].attempts > 0)
      => Endpoint(cache[fetchers[i]]) \in metas[k].allowed_hosts

\* the names of the descriptors from position p on that pass every filter of
\* choose for the arguments fl, in descriptor-list order
RECURSIVE PassingFrom(_, _)
PassingFrom(p, fl) ==
  IF p > Len(metas) THEN <<>>
  ELSE (IF DescriptorPasses(metas[p], fl) THEN <<metas[p].name>> ELSE <<>>)
       \o PassingFrom(p + 1, fl)

\* the first `limit` of the passing descriptors
CutToLimit(fl) ==
  LET passing == PassingFrom(1, fl)
  IN SubSeq(passing, 1, Min(fl.limit, Len(passing)))

\* C30: choose returns the adapters of exactly the descriptors that pass all
\* filters, in descriptor-list order, cut to the first `limit` of them
\* whenever a limit is given: the result never has more than `limit`
\* adapters that come from the descriptor list (the local-echo fallback
\* stands in when none is left)
C30_ChooseExact ==
  \A fl \in Filters :
    LET r == ChooseNow(fl)
    IN r.selected = IF CutToLimit(fl) # <<>> THEN CutToLimit(fl)
                    ELSE <<LocalEchoMeta.name>>

\* the positions in ptasks of the calls that returned a reply
Replied == {i \in 1..Len(ptasks) : ptasks[i].st \in {"ok", "mock", "failed"}}

\* C31: route_prompt returns the responses of exactly those configured
\* providers whose call neither raised nor exceeded the timeout, in provider
\* order; when no provider remains it returns the single response with id
\* "fallback", the prompt as content and error "no_providers_succeeded"; it
\* never returns an empty list
C31_PartialResults ==
  ppc = "done" =>
    /\ Len(presults) >= 1
    /\ Replied = {} =>
         presults = <<[id |-> "fallback", mock |-> FALSE, content |-> Prompt,
                       error |-> "no_providers_succeeded"]>>
    /\ Replied # {} =>
         /\ Len(presults) = Cardinality(Replied)
         /\ \A k \in 1..Len(presults) :
              \E i \in Replied :
                /\ presults[k] = ProviderReply(ptasks[i].name, ptasks[i].st)
                /\ Cardinality({j \in Replied : j < i}) = k - 1

\* of three providers the first timed out, the second replied and the third
\* raised: the one reply was returned; and a run in which nothing was left
C31_Witness ==
  /\ ppc = "done"
  /\ Len(ptasks) = 3
  /\ ptasks[1].st = "timeout" /\ ptasks[2].st = "ok" /\ ptasks[3].st = "raised"
  /\ presults = <<ProviderReply(ptasks[2].name, "ok")>>
  /\ pevents = <<ptasks[1].name, ptasks[3].name>>

\* C36: with parallel=false the provider calls run one at a time in provider
\* order: a call starts only after the previous provider's call has
\* completed, so at most one call is in flight at any time
C36_SequentialOneAtATime ==
  ~pparallel =>
    /\ Cardinality({i \in 1..Len(ptasks) : ptasks[i].st = "running"}) <= 1
    /\ \A i \in 2..Len(ptasks) :
         ptasks[i].st # "scheduled" => ptasks[i - 1].st \in CallEnds

\* C32: execute with UCB1 and the default attempt count selects every
\* not-yet-tried model before it selects a tried one again, makes at most
\* len(models) calls of func, returns the first successful result (of func
\* or of the fallback), and so returns successfully whenever func succeeds
\* for at least one model; if every attempt fails it raises the last
\* exception
C32_ExecuteTriesEveryModel ==
  /\ \A k \in 1..Len(bcalls) :
       bcalls[k].trials > 0 => bcalls[k].untried = {}
  /\ Len(bcalls) <= Len(bmodels)
  /\ bout.kind = "returned" =>
       /\ bout.model = bcalls[Len(bcalls)].model
       /\ bout.via = "func" => bout.model \in bworks
       /\ bout.via = "fallback" => bfallback = "works" /\ bout.model \notin bworks
       /\ \A k \in 1..(Len(bcalls) - 1) :
            bcalls[k].model \notin bworks /\ bfallback # "works"
  /\ bout.kind = "raised" =>
       /\ bworks = {}
       /\ bfallback # "works"
       /\ bout.model = bcalls[Len(bcalls)].model

\* C33: after any sequence of record_result calls score equals
\* successes/trials; title and sandboxed do not change while trials < 5; and
\* after a call that leaves trials >= 5, score >= 0.8 gives title "promoted"
\* with sandboxed false, score <= 0.2 gives "sandboxed" with sandboxed true,
\* and 0.2 < score <= 0.5 gives "demoted" with sandboxed false
C33_AgentLifecycle ==
  /\ [](agent_row.trials > 0 =>
          agent_row.score.n * agent_row.trials = agent_row.successes * agent_row.score.d)
  /\ [][/\ agent_row'.trials < 5 =>
            (agent_row'.title = agent_row.title /\ agent_row'.sandboxed = agent_row.sandboxed)
        /\ (agent_row'.trials >= 5 /\ 10 * agent_row'.successes >= 8 * agent_row'.trials) =>
            (agent_row'.title = "promoted" /\ ~agent_row'.sandboxed)
        /\ (agent_row'.trials >= 5 /\ 10 * agent_row'.successes <= 2 * agent_row'.trials) =>
            (agent_row'.title = "sandboxed" /\ agent_row'.sandboxed)
        /\ (/\ agent_row'.trials >= 5
            /\ 10 * agent_row'.successes > 2 * agent_row'.trials
            /\ 10 * agent_row'.successes <= 5 * agent_row'.trials) =>
            (agent_row'.title = "demoted" /\ ~agent_row'.sandboxed)]_agent_row

\* five successes promoted the agent and twenty failures sandboxed it
C33_Witness ==
  /\ agent_row.trials = 25
  /\ agent_row.successes = 5
  /\ agent_row.title = "sandboxed"
  /\ agent_row.sandboxed


\* a thread between the first and the last statement of a mutating call
Mutating(t) == th[t].pc \in {"add_purge", "add_insert", "upd_write"}

\* C34: every mutating operation of the core store on a shard runs under
\* the shard's mutex, so a thread inside one holds the lock and no two
\* threads are inside mutating operations of the shard at the same time
C34_MutationsUnderMutex ==
  \A t \in Threads :
    Mutating(t) =>
      /\ lock = t
      /\ \A u \in Threads \ {t} : ~Mutating(u)


\* C35: what search(agent, q) returns is a live entry of the agent whose
\* current text matches q, also after updates, deletes and purges
C35_SearchCurrentText ==
  \A t \in Threads :
    (th[t].op = "search" /\ th[t].pc = "get_done") =>
      \A k \in 1..Len(th[t].result) :
        /\ th[t].result[k].agent = th[t].agent
        /\ ~th[t].result[k].deleted
        /\ th[t].result[k].text = th[t].query


\* the runs with an interaction memory and the runs with a quality record
Remembered == {memories[k] : k \in 1..Len(memories)}
Rated == {qualities[k] : k \in 1..Len(qualities)}

\* C37: the pipeline writes the quality record of a run before its
\* interaction memory, so a run whose record_quality failed has left no
\* interaction memory
C37_QualityBeforeMemory ==
  /\ Remembered \subseteq Rated
  /\ (opc = "raised" /\ ofailed = "quality") => oruns \notin Remembered


\* the tags of a stored row, as a set
RowTags(r) == {LoadTags(r.tags)[k] : k \in 1..Len(LoadTags(r.tags))}

\* C38: search with a non-empty tag list T returns, in strict-query mode,
\* only entries whose tag list equals T, and in the other mode only entries
\* that share a tag with T
C38_TagFilter ==
  \A t \in Threads :
    (th[t].op = "search" /\ th[t].pc = "get_done" /\ th[t].tags # <<>>) =>
      \A k \in 1..Len(th[t].result) :
        IF query_strict
          THEN LoadTags(th[t].result[k].tags) = th[t].tags
          ELSE \E j \in 1..Len(th[t].tags) : th[t].tags[j] \in RowTags(th[t].result[k])


\* C39: the recent latency average is the first sample after the first
\* generate, and after every later sample x it is 0.2 * x + 0.8 * the
\* previous average, also when the previous average is 0
C39_LatencyAverage ==
  /\ Len(lsamples) = 1 => lfetcher.recent_latency_avg = Frac(lsamples[1], 1)
  /\ Len(lsamples) > 1 =>
       lfetcher.recent_latency_avg =
         Frac(lsamples[Len(lsamples)] * lprev.d + 4 * lprev.n, 5 * lprev.d)


\* C40: after any adds and prunes an agent of the in-memory backend has as
\* many rows as entries, row i is the embedding of entry i, and similar
\* returns first an entry whose own embedding is nearest to the text
C40_VectorsAligned ==
  /\ \A a \in VAgents :
       /\ Len(vvectors[a]) = Len(vstore[a])
       /\ \A i \in 1..Len(vstore[a]) :
            vvectors[a][i] = DefaultEmbed(vstore[a][i].text, Dims)
  /\ (vresult # <<>> /\ vresult.entries # <<>>) =>
       \A i \in 1..Len(vstore[vresult.agent]) :
         Dist(DefaultEmbed(vresult.entries[1].text, Dims), DefaultEmbed(vresult.text, Dims))
           <= Dist(DefaultEmbed(vstore[vresult.agent][i].text, Dims),
                   DefaultEmbed(vresult.text, Dims))

====
